---- MODULE Spec2Model ----
\* Verification model of the device communication core of the Marstek
\* connector: the request/response correlator and the command dispatcher of
\* drivers/marstek-venus/driver.ts, the cloud session of lib/marstek-cloud.ts
\* and the poll interval computation of the driver.
EXTENDS Integers, Sequences, FiniteSets, TLC

\* ------------------------------------------------------------------ bounds
\* The source wraps its identifier counter at 65535 and reseeds it in
\* 0..10000 (driver.ts:47, 291).  The model keeps the same shape (a ceiling,
\* and a reseed range strictly below it) on a scaled-down range.
IdCeiling == 4
SeedMax == 1
\* One setModeConfiguration call is followed attempt by attempt; MaxOther
\* further calls run concurrently and are followed only through the
\* sendCommand calls they make.
MaxOther == 1
\* Request closures (sendCommand promises) that can exist at the same time.
MaxReq == MaxOther + 2

\* Callers that use one cloud session concurrently.
MaxCallers == 2
\* The wall clock of the cloud session runs from 0 to MaxClock (ms).
MaxClock == 90000

\* Devices of the driver.
MaxDevices == 3
\* Math.round(Math.random() * 100) is drawn from 0..JitterMax.
JitterMax == 2

\* Devices whose polling is started and stopped, and entries the list of
\* polling devices can hold (pollStart adds an entry on every call).
MaxPollers == 2

\* Source tags and sender addresses of the datagrams that reach a discovery.
MaxTags == 2
MaxAddrs == 2

\* Handlers that register with the socket.
MaxHandlers == 3

\* Calls of send() or broadcast() that are followed, and dgram sockets the
\* transport creates.
MaxSenders == 2
MaxSockets == 2

\* Identifiers a request and a datagram can carry.
MaxIds == 2

\* Largest finite power or duration a flow hands over.
MaxPower == 1

\* ------------------------------------------------------- program constants
maxRetries == 5
\* README.md: "automatic retry for a maximum of 5 tries"
ConfiguredTries == 5
\* driver.ts getPollInterval: let interval = 60 * 60
startSeconds == 3600
\* driver.ts getPollInterval: interval < 15
floorSeconds == 15
\* driver.ts getPollInterval: interval = 600
fallbackSeconds == 600
\* driver.ts broadcastDetect: setInterval(sendMessage, 2000) and
\* setTimeout(..., 9000), in seconds
ResendSeconds == 2
WindowSeconds == 9
\* The handler closure of broadcastDetect in the registry (request closures
\* are numbered from 1).
DetectHandler == 0
\* driver.ts pollMessages: the 'broadcast' flag of each entry
pollMessages == <<FALSE, TRUE, FALSE, FALSE, FALSE>>
\* marstek-cloud.ts: if (diff < 58000)
FreshnessMs == 58000

Others == 1..MaxOther
Callers == 1..MaxCallers
\* Amounts by which the clock advances between two events (ms).
ClockSteps == {FreshnessMs \div 2, FreshnessMs \div 2 - 1}
\* Telemetry payloads the status endpoint can return.
DataVals == {"d1", "d2"}
\* Values of a device's 'interval' setting (seconds; 0: not set).
IntervalSettings == {0, 10, 15, 30, 700, 4000}
\* 'interval' settings of the devices whose polling is started and stopped.
TimerSettings == {15, 30, 700}
LoginKinds == {"ok", "notoken", "nodevices", "httperr"}
StatusKinds == {"data", "code8", "code8data", "empty", "httperr"}
Reqs == 1..MaxReq

VARIABLES
    pollId,      \* driver.pollId: the identifier counter
    addrKnown,   \* device.getStoreValue('address') is set
    handlers,    \* MarstekSocket.handlers: registered handlers, in order
    reqState,    \* per sendCommand promise: free / pending / settled outcome
    reqId,       \* per sendCommand closure: the constant `unique`
    reqTimer,    \* per sendCommand closure: the timeout timer is armed
    reqSend,     \* per sendCommand closure: state of the socket.send promise
    reqFired,    \* per sendCommand closure: runs of the reply branch or timer
    othReq,      \* per concurrent call: the request it awaits (0: not running)
    cmdState,    \* the followed setModeConfiguration call: idle / running / ok / failed
    cmdReq,      \* the request it awaits (0: none)
    attempt,     \* setModeConfiguration: local `attempt`
    lastError,   \* setModeConfiguration: local `lastError`
    sent,        \* sendCommand calls of this setModeConfiguration that got an id
    onlyNack,    \* every attempt so far ended with an explicit rejection reply
    onlyTimeout, \* every attempt so far ended with the request timing out
    token,            \* MarstekCloud.token
    loginPromise,     \* MarstekCloud.loginPromise: 0, or the caller whose login() call created it
    devicePromise,    \* MarstekCloud.devicePromise: 0, or the caller whose fetch created it
    lastDeviceStatus, \* MarstekCloud.lastDeviceStatus
    timestamp,        \* MarstekCloud.timestamp
    now,              \* the wall clock (new Date())
    loginNet,         \* per caller: the login HTTP request it started is in flight
    pc,               \* per caller: where its login() / fetchDeviceStatus() call stands
    fJoin,            \* per caller: the devicePromise it was handed
    lJoin,            \* per caller: the loginPromise it awaits
    result,           \* per caller: what its call settled with
    via,              \* per caller: the place where its call settled
    statusReqs,       \* per caller: status HTTP requests its call has started
    loginStarts,      \* per caller: login HTTP requests its call has started
    relogins,         \* per caller: login() calls made because of a code "8" response
    hadFresh,         \* per caller: a fresh snapshot existed when it called fetchDeviceStatus
    lastKind,         \* per caller: kind of the last status response its call received
    fetchCost,        \* HTTP requests made by the call that stored lastDeviceStatus
    devices,          \* getDevices(): the 'interval' setting of each device, in iteration order
    pollMs,           \* what getPollInterval() returned (0: not called yet)
    pollDevices,      \* driver.pollDevices: 'src' of the devices that poll, in order of pollStart
    pollTimeout,      \* driver.pollTimeout: 0, or the handle of the interval timer
    timers,           \* interval timers that are armed: handle and period (ms)
    pollCalled,       \* the last scheduler call ran poll() itself
    lastCall,         \* the scheduler method called last
    pollCfg,          \* getDevices() as poll() finds them: see PollKinds
    runAt,            \* the followed poll() run: idle, the await it stands at, or done
    runMsg,           \* its index into pollMessages
    runDev,           \* its index into the devices
    alsoBroadcast,    \* its local alsoBroadcast
    txLog,            \* its socket.send / socket.broadcast calls: <<message, device>>, device 0 for a broadcast
    taken,            \* the messages it took an identifier for
    firstFailed,      \* <<message, device>> of its first transmit that failed
    runBy,            \* who called it
    runResult,        \* none / running / resolved / rejected
    detState,         \* the followed broadcastDetect: idle / sending / window / resolved / rejected
    detDevices,       \* its local devices: <<[id, address]>>
    detResult,        \* the list its promise was resolved with
    detFirst,         \* outcome of its first sendMessage(): pending / ok / failed
    detInterval,      \* its 2 s interval is armed
    detTimer,         \* its 9 s timeout is armed
    elapsed,          \* seconds since both were armed
    nextResend,       \* second at which the interval fires next
    resent,           \* sendMessage() calls made by the interval
    firstAddr,        \* per source tag: address of the first reply with the device marker (0: none)
    dupSeen,          \* a later reply with a known tag came from another address
    rxOutcome,        \* the last datagram: none / ignored / caught / dispatched / escaped
    lastAddr,         \* its sender: local (the host's own address) or other
    lastParsed,       \* JSON.parse accepted it
    before,           \* the registry when it arrived
    lastBeh,          \* what each handler did when called with it
    invoked,          \* the handlers called with it, in call order
    sock,             \* this.socket of the MarstekSocket: none, or a dgram socket that is binding or bound
    connected,        \* this.connected
    created,          \* dgram sockets created so far
    closing,          \* sockets closed whose 'close' event is still to come
    destroyed,        \* destroy() was called on the MarstekSocket
    txAt,             \* per followed transmit call: idle / connecting / sending / stuck / done
    txResult,         \* its promise: none / resolved / rejected
    handed,           \* it passed its datagram to socket.send of a dgram socket
    waitGen,          \* the socket whose bind its connect() waits for
    cnResult,         \* the promise of the last connect() called directly
    lastEv,           \* what happened last on the transport
    failedWith,       \* the registry at the last 'error' or 'close' event
    running,          \* the devices whose onInit ran and that are not torn down
    gone,             \* the devices whose onUninit or onDeleted ran
    awaiting,         \* the devices whose onInit is in its awaits
    pollOn,           \* the devices whose 'poll' setting is on
    rqId,             \* the identifier of the followed sendCommand to device A (0: none)
    rqState,          \* its promise: none / pending / resolved / rejected
    rqValue,          \* what it was resolved with or the message it was rejected with
    json,             \* the datagram its handler was called with last
    manualDays,       \* the days argument, when the last mode call was setModeManual
    weekSet,          \* manual_cfg.week_set of the configuration it built (-1: none)
    passiveIn,        \* power and seconds, when the last mode call was setModePassive
    passiveOut,       \* what that call did: threw, or handed a configuration on
    address,          \* per battery: the 'address' store value (0: none)
    readings,         \* per battery: the result its capabilities were last set from
    lastRx,           \* the datagram handed to the devices last
    lastUnicast,      \* the last unicast: its kind, the battery, the address it went to
    addrEv,           \* what happened last: none / message / poll / command
    initialSent  \* sendInitialRequests of a device: index of the message broadcast last, 0 when not running

corrVars == <<pollId, addrKnown, handlers, reqState, reqId, reqTimer, reqSend, reqFired, othReq>>
cmdVars == <<cmdState, cmdReq, attempt, lastError, sent, onlyNack, onlyTimeout>>
sessionVars == <<token, loginPromise, devicePromise, lastDeviceStatus, timestamp, now, loginNet, fetchCost>>
callerVars == <<pc, fJoin, lJoin, result, via, statusReqs, loginStarts, relogins, hadFresh, lastKind>>
cloudVars == <<sessionVars, callerVars>>
schedVars == <<devices, pollMs>>
driverVars == <<corrVars, cmdVars>>
timerVars == <<pollDevices, pollTimeout, timers, pollCalled, lastCall>>
runVars == <<pollCfg, runAt, runMsg, runDev, alsoBroadcast, txLog, taken, firstFailed, runBy, runResult>>
detVars == <<detState, detDevices, detResult, detFirst, detInterval, detTimer, elapsed, nextResend,
             resent, firstAddr, dupSeen>>
rxVars == <<rxOutcome, lastAddr, lastParsed, before, lastBeh, invoked>>
replyVars == <<rqId, rqState, rqValue, json>>
modeVars == <<manualDays, weekSet, passiveIn, passiveOut>>
addrVars == <<address, readings, lastRx, lastUnicast, addrEv>>
initVars == <<initialSent>>
downVars == <<running, gone, awaiting, pollOn>>
sockVars == <<sock, connected, created, closing, destroyed, txAt, txResult, handed, waitGen,
              cnResult, lastEv, failedWith>>
notSock == <<pollId, addrKnown, reqState, reqId, reqTimer, reqSend, reqFired, othReq, cmdVars,
             cloudVars, schedVars, timerVars, runVars, detVars, downVars, replyVars, modeVars, addrVars, initVars>>
notReply == <<driverVars, cloudVars, schedVars, timerVars, runVars, detVars, rxVars, sockVars, downVars, modeVars, addrVars, initVars>>
notMode == <<driverVars, cloudVars, schedVars, timerVars, runVars, detVars, rxVars, sockVars, downVars, replyVars, addrVars, initVars>>
notAddr == <<driverVars, cloudVars, schedVars, timerVars, runVars, detVars, rxVars, sockVars, downVars, replyVars, modeVars, initVars>>
notLife == <<pollId, addrKnown, reqState, reqId, reqTimer, reqSend, reqFired, othReq, cmdVars,
             cloudVars, schedVars, runVars, detVars, rxVars, sockVars, replyVars, modeVars, addrVars, initVars>>
notInit == <<driverVars, cloudVars, schedVars, timerVars, runVars, detVars, rxVars, sockVars, downVars, replyVars, modeVars, addrVars>>
notDriver == <<cloudVars, schedVars, timerVars, runVars, detVars, rxVars, sockVars, downVars, replyVars, modeVars, addrVars, initVars>>
notCloud == <<driverVars, schedVars, timerVars, runVars, detVars, rxVars, sockVars, downVars, replyVars, modeVars, addrVars, initVars>>
notSched == <<driverVars, cloudVars, timerVars, runVars, detVars, rxVars, sockVars, downVars, replyVars, modeVars, addrVars, initVars>>
notTimer == <<driverVars, cloudVars, pollMs, runVars, detVars, rxVars, sockVars, downVars, replyVars, modeVars, addrVars, initVars>>
notRun == <<addrKnown, handlers, reqState, reqId, reqTimer, reqSend, reqFired, othReq, cmdVars,
            cloudVars, schedVars, timerVars, detVars, rxVars, sockVars, downVars, replyVars, modeVars, addrVars, initVars>>
notDetect == <<pollId, addrKnown, reqState, reqId, reqTimer, reqSend, reqFired, othReq, cmdVars,
               cloudVars, schedVars, timerVars, runVars, rxVars, sockVars, downVars, replyVars, modeVars, addrVars, initVars>>
notRecv == <<pollId, addrKnown, reqState, reqId, reqTimer, reqSend, reqFired, othReq, cmdVars,
             cloudVars, schedVars, timerVars, runVars, detVars, sockVars, downVars, replyVars, modeVars, addrVars, initVars>>
vars == <<driverVars, cloudVars, schedVars, timerVars, runVars, detVars, rxVars, sockVars, downVars, replyVars, modeVars, addrVars, initVars>>

Settled == {"resolved_ack", "resolved_nack", "rej_shape", "rej_timeout", "rej_send"}
ReplyShapes == {"ack", "nack", "noresult"}

\* ------------------------------------------------------------ correlator
\* getUniqueID: increment, reseed randomly at the ceiling; the set of values
\* the call can return (and leave in pollId).
getUniqueID_NoReseed(pid) == {(pid + 1) % IdCeiling}
getUniqueID(pid) ==
    IF pid + 1 >= IdCeiling THEN 0..SeedMax ELSE {pid + 1}

InRegistry(r) == \E k \in 1..Len(handlers) : handlers[k] = r

\* socket.on(handler): append unless already present.
on(hs, h) == IF \E k \in 1..Len(hs) : hs[k] = h THEN hs ELSE Append(hs, h)
\* socket.off(handler): splice the handler out.
off_Noop(hs, h) == hs
off(hs, h) == SelectSeq(hs, LAMBDA x : x # h)

\* this.homey.clearTimeout(timer) inside cleanup() of sendCommand.
clearTimeout_Noop(tm, r) == tm
clearTimeout(tm, r) == [tm EXCEPT ![r] = FALSE]

\* Promise semantics: resolve/reject only act on a pending promise.
settle(st, outcome) == IF st = "pending" THEN outcome ELSE st

\* Continuations of async functions run as microtasks, before any timer,
\* datagram or send callback.
MicrotaskPending ==
    \/ cmdState \in {"ok", "failed"}
    \/ cmdState = "running" /\ cmdReq # 0 /\ reqState[cmdReq] \in Settled
    \/ \E c \in Others : othReq[c] # 0 /\ reqState[othReq[c]] \in Settled

\* MarstekSocket.callback: handlers.map(...) over the live array.  map fixes
\* the length n at the start and skips indices that no longer exist; a
\* matching sendCommand handler splices itself out (cleanup) while the map
\* is running.  Yields the registry afterwards and the handlers that matched.
RECURSIVE callback(_, _, _, _, _)
callback(k, n, hs, called, id) ==
    IF k > n THEN [hs |-> hs, called |-> called]
    ELSE IF k > Len(hs) THEN callback(k + 1, n, hs, called, id)
    ELSE IF reqId[hs[k]] = id
         THEN callback(k + 1, n, off(hs, hs[k]), called \cup {hs[k]}, id)
         ELSE callback(k + 1, n, hs, called, id)

\* The reply handler of sendCommand: json.result truthy resolves, else reject.
replyOutcome(shape) ==
    CASE shape = "ack" -> "resolved_ack"
      [] shape = "nack" -> "resolved_nack"
      [] OTHER -> "rej_shape"

\* The request closures as they are once closure r has been consumed by its
\* awaiter: a closure that nothing refers to any more is dropped.
Consumed(r) ==
    LET clean == ~reqTimer[r] /\ ~InRegistry(r) IN
    [st |-> IF clean THEN [reqState EXCEPT ![r] = "free"] ELSE reqState,
     id |-> IF clean THEN [reqId EXCEPT ![r] = 0] ELSE reqId,
     sd |-> IF clean THEN [reqSend EXCEPT ![r] = "none"] ELSE reqSend,
     fr |-> IF clean THEN [reqFired EXCEPT ![r] = 0] ELSE reqFired]
Current == [st |-> reqState, id |-> reqId, sd |-> reqSend, fr |-> reqFired]

\* The closure a caller's next sendCommand runs in: its own one when that is
\* free, else the spare one.  (Caller 0 is the followed call.)
Home(c) == c + 1
Spare == MaxOther + 2
HasFree(b, c) == b.st[Home(c)] = "free" \/ b.st[Spare] = "free"
FreeReq(b, c) == IF b.st[Home(c)] = "free" THEN Home(c) ELSE Spare

\* sendCommand(device, 'ES.SetMode', ...) with a known address, run in
\* closure r: take an identifier, arm the timer, register the handler, start
\* the send.
sendCommand(r, b, id) ==
    /\ pollId' = id
    /\ reqId' = [b.id EXCEPT ![r] = id]
    /\ reqState' = [b.st EXCEPT ![r] = "pending"]
    /\ reqTimer' = [reqTimer EXCEPT ![r] = TRUE]
    /\ reqSend' = [b.sd EXCEPT ![r] = "inflight"]
    /\ reqFired' = [b.fr EXCEPT ![r] = 0]
    /\ handlers' = on(handlers, r)

InitDriver ==
    /\ pollId \in 0..SeedMax
    /\ addrKnown \in BOOLEAN
    /\ handlers = <<>>
    /\ reqState = [r \in Reqs |-> "free"]
    /\ reqId = [r \in Reqs |-> 0]
    /\ reqTimer = [r \in Reqs |-> FALSE]
    /\ reqSend = [r \in Reqs |-> "none"]
    /\ reqFired = [r \in Reqs |-> 0]
    /\ othReq = [c \in Others |-> 0]
    /\ cmdState = "idle"
    /\ cmdReq = 0
    /\ attempt = 0
    /\ lastError = "none"
    /\ sent = 0
    /\ onlyNack = TRUE
    /\ onlyTimeout = TRUE

\* A MarstekCloud object after construction, no call made yet.
InitCloud ==
    /\ token = "none"
    /\ loginPromise = 0
    /\ devicePromise = 0
    /\ lastDeviceStatus = "none"
    /\ timestamp = 0
    /\ now = 0
    /\ loginNet = [c \in Callers |-> FALSE]
    /\ pc = [c \in Callers |-> "idle"]
    /\ fJoin = [c \in Callers |-> 0]
    /\ lJoin = [c \in Callers |-> 0]
    /\ result = [c \in Callers |-> "none"]
    /\ via = [c \in Callers |-> "none"]
    /\ statusReqs = [c \in Callers |-> 0]
    /\ loginStarts = [c \in Callers |-> 0]
    /\ relogins = [c \in Callers |-> 0]
    /\ hadFresh = [c \in Callers |-> FALSE]
    /\ lastKind = [c \in Callers |-> "none"]
    /\ fetchCost = 0

\* Two paired batteries, named by the 'src' setting of their devices.
Batteries == {"A", "B"}

\* No device polls, no discovery runs, no datagram is being dispatched.
InitIdle ==
    /\ pollDevices = <<>>
    /\ pollTimeout = 0
    /\ timers = {}
    /\ pollCalled = FALSE
    /\ lastCall = "none"
    /\ runAt = "idle"
    /\ runMsg = 0
    /\ runDev = 0
    /\ alsoBroadcast = FALSE
    /\ txLog = <<>>
    /\ taken = <<>>
    /\ firstFailed = <<>>
    /\ runBy = "none"
    /\ runResult = "none"
    /\ detState = "idle"
    /\ detDevices = <<>>
    /\ detResult = <<>>
    /\ detFirst = "pending"
    /\ detInterval = FALSE
    /\ detTimer = FALSE
    /\ elapsed = 0
    /\ nextResend = 0
    /\ resent = 0
    /\ firstAddr = [s \in 1..MaxTags |-> 0]
    /\ dupSeen = FALSE
    /\ rxOutcome = "none"
    /\ lastAddr = "none"
    /\ lastParsed = FALSE
    /\ before = <<>>
    /\ lastBeh = [h \in 1..MaxHandlers |-> "keep"]
    /\ invoked = <<>>
    /\ sock = "none"
    /\ connected = FALSE
    /\ created = 0
    /\ closing = 0
    /\ destroyed = FALSE
    /\ txAt = [c \in 1..MaxSenders |-> "idle"]
    /\ txResult = [c \in 1..MaxSenders |-> "none"]
    /\ handed = [c \in 1..MaxSenders |-> FALSE]
    /\ waitGen = [c \in 1..MaxSenders |-> 0]
    /\ cnResult = "none"
    /\ lastEv = "none"
    /\ failedWith = <<>>
    /\ running = {}
    /\ awaiting = {}
    /\ pollOn = {}
    /\ gone = {}
    /\ rqId = 0
    /\ rqState = "none"
    /\ rqValue = "none"
    /\ json = [id |-> 0, src |-> "none", error |-> "none", result |-> "none"]
    /\ manualDays = {}
    /\ weekSet = -1
    /\ passiveIn = <<>>
    /\ passiveOut = [state |-> "none"]
    /\ readings = [d \in Batteries |-> "none"]
    /\ lastRx = [src |-> "none", address |-> 0, result |-> "none"]
    /\ lastUnicast = [kind |-> "none", to |-> "none", address |-> 0]
    /\ addrEv = "none"
    /\ initialSent = 0

Init ==
    /\ InitDriver
    /\ InitCloud
    /\ InitIdle
    /\ address = <<>>
    /\ pollCfg = <<>>
    /\ devices = <<>>
    /\ pollMs = 0

\* --------------------------------------------------- command dispatcher
\* The error setModeConfiguration sees for a settled sendCommand promise; a
\* result whose set_result is false is thrown inside the try block and so
\* lands in the same catch as every other failure.
attemptError(outcome) ==
    CASE outcome = "resolved_nack" -> "rejected"
      [] outcome = "rej_shape" -> "shape"
      [] outcome = "rej_timeout" -> "timeout"
      [] outcome = "rej_send" -> "send"
      [] OTHER -> "none"

\* while (attempt < maxRetries)
retryAgain_OffByOne(att) == att <= maxRetries
retryAgain(att) == att < maxRetries

\* A flow card calls setModeConfiguration: the first sendCommand runs
\* synchronously.  Without a stored address every sendCommand throws before
\* it takes an identifier, so the loop runs through all its attempts at once.
setModeConfiguration ==
    /\ cmdState = "idle"
    /\ ~MicrotaskPending
    /\ UNCHANGED <<addrKnown, othReq, notDriver>>
    /\ IF addrKnown
       THEN /\ HasFree(Current, 0)
            /\ \E id \in getUniqueID(pollId) : sendCommand(FreeReq(Current, 0), Current, id)
            /\ cmdReq' = FreeReq(Current, 0)
            /\ cmdState' = "running"
            /\ sent' = 1
            /\ UNCHANGED <<attempt, lastError, onlyNack, onlyTimeout>>
       ELSE /\ cmdState' = "failed"
            /\ attempt' = maxRetries
            /\ lastError' = "noaddr"
            /\ onlyNack' = FALSE
            /\ onlyTimeout' = FALSE
            /\ UNCHANGED <<pollId, handlers, reqState, reqId, reqTimer, reqSend, reqFired, cmdReq, sent>>

\* The continuation of setModeConfiguration after `await sendCommand(...)`:
\* return on success, otherwise count the attempt and loop or give up.
setModeConfigurationResume ==
    LET r == cmdReq
        outcome == reqState[r]
        b == Consumed(r)
    IN
    /\ cmdState = "running"
    /\ r # 0
    /\ outcome \in Settled
    /\ onlyNack' = (onlyNack /\ outcome = "resolved_nack")
    /\ onlyTimeout' = (onlyTimeout /\ outcome = "rej_timeout")
    /\ UNCHANGED <<addrKnown, othReq, notDriver>>
    /\ IF outcome = "resolved_ack"
       THEN /\ cmdState' = "ok"
            /\ cmdReq' = 0
            /\ reqState' = b.st /\ reqId' = b.id /\ reqSend' = b.sd /\ reqFired' = b.fr
            /\ UNCHANGED <<pollId, handlers, reqTimer, attempt, lastError, sent>>
       ELSE /\ lastError' = attemptError(outcome)
            /\ attempt' = attempt + 1
            /\ IF retryAgain(attempt + 1)
               THEN /\ HasFree(b, 0)
                    /\ \E id \in getUniqueID(pollId) : sendCommand(FreeReq(b, 0), b, id)
                    /\ cmdReq' = FreeReq(b, 0)
                    /\ sent' = sent + 1
                    /\ UNCHANGED cmdState
               ELSE /\ cmdState' = "failed"
                    /\ cmdReq' = 0
                    /\ reqState' = b.st /\ reqId' = b.id /\ reqSend' = b.sd /\ reqFired' = b.fr
                    /\ UNCHANGED <<pollId, handlers, reqTimer, sent>>

\* The flow card's run listener continues after `await handler(args)`: the
\* call has returned or thrown, its locals are gone.
runListenerReturn ==
    /\ cmdState \in {"ok", "failed"}
    /\ cmdState' = "idle"
    /\ attempt' = 0
    /\ lastError' = "none"
    /\ sent' = 0
    /\ onlyNack' = TRUE
    /\ onlyTimeout' = TRUE
    /\ UNCHANGED <<corrVars, cmdReq, notDriver>>

\* Another setModeConfiguration call, running concurrently, calls sendCommand.
otherSendCommand(c) ==
    /\ ~MicrotaskPending
    /\ othReq[c] = 0
    /\ addrKnown
    /\ HasFree(Current, c)
    /\ \E id \in getUniqueID(pollId) : sendCommand(FreeReq(Current, c), Current, id)
    /\ othReq' = [othReq EXCEPT ![c] = FreeReq(Current, c)]
    /\ UNCHANGED <<addrKnown, cmdVars, notDriver>>

\* Its continuation: it has the outcome of its request and either is done
\* with it or retries at once.
otherResume(c) ==
    LET r == othReq[c]
        b == Consumed(r)
    IN
    /\ r # 0
    /\ reqState[r] \in Settled
    /\ UNCHANGED <<addrKnown, cmdVars, notDriver>>
    /\ \/ /\ othReq' = [othReq EXCEPT ![c] = 0]
          /\ reqState' = b.st /\ reqId' = b.id /\ reqSend' = b.sd /\ reqFired' = b.fr
          /\ UNCHANGED <<pollId, handlers, reqTimer>>
       \/ /\ reqState[r] # "resolved_ack"
          /\ HasFree(b, c)
          /\ \E id \in getUniqueID(pollId) : sendCommand(FreeReq(b, c), b, id)
          /\ othReq' = [othReq EXCEPT ![c] = FreeReq(b, c)]

\* An inbound datagram carrying identifier id is dispatched to the handlers:
\* every matching sendCommand handler runs cleanup() and settles its promise.
Datagram(id, shape) ==
    LET d == callback(1, Len(handlers), handlers, {}, id) IN
    /\ ~MicrotaskPending
    /\ d.called # {}
    /\ handlers' = d.hs
    /\ reqTimer' = [r \in Reqs |-> IF r \in d.called THEN clearTimeout(reqTimer, r)[r] ELSE reqTimer[r]]
    /\ reqFired' = [r \in Reqs |-> IF r \in d.called THEN reqFired[r] + 1 ELSE reqFired[r]]
    /\ reqState' = [r \in Reqs |-> IF r \in d.called THEN settle(reqState[r], replyOutcome(shape)) ELSE reqState[r]]
    /\ UNCHANGED <<pollId, addrKnown, reqId, reqSend, othReq, cmdVars, notDriver>>

\* The timeout timer of sendCommand fires: cleanup(), reject with the
\* timeout error.
Timeout_NoCleanup(r) ==
    /\ ~MicrotaskPending
    /\ reqTimer[r]
    /\ reqTimer' = [reqTimer EXCEPT ![r] = FALSE]
    /\ reqFired' = [reqFired EXCEPT ![r] = @ + 1]
    /\ reqState' = [reqState EXCEPT ![r] = settle(@, "rej_timeout")]
    /\ UNCHANGED <<pollId, addrKnown, handlers, reqId, reqSend, othReq, cmdVars, notDriver>>
Timeout(r) ==
    /\ ~MicrotaskPending
    /\ reqTimer[r]
    /\ handlers' = off(handlers, r)
    /\ reqTimer' = [reqTimer EXCEPT ![r] = FALSE]
    /\ reqFired' = [reqFired EXCEPT ![r] = @ + 1]
    /\ reqState' = [reqState EXCEPT ![r] = settle(@, "rej_timeout")]
    /\ UNCHANGED <<pollId, addrKnown, reqId, reqSend, othReq, cmdVars, notDriver>>

\* socket.send(...) rejects: the catch of sendCommand runs cleanup() and
\* rejects with the transport error.  (A send that resolves changes nothing:
\* sendCommand attaches no continuation to it.)
SendFail(r) ==
    /\ ~MicrotaskPending
    /\ reqSend[r] = "inflight"
    /\ reqSend' = [reqSend EXCEPT ![r] = "none"]
    /\ handlers' = off(handlers, r)
    /\ reqTimer' = clearTimeout(reqTimer, r)
    /\ reqState' = [reqState EXCEPT ![r] = settle(@, "rej_send")]
    /\ UNCHANGED <<pollId, addrKnown, reqId, reqFired, othReq, cmdVars, notDriver>>

\* poll() builds a query: id: this.getUniqueID().
PollGetId ==
    /\ ~MicrotaskPending
    /\ \E id \in getUniqueID(pollId) : pollId' = id
    /\ UNCHANGED <<addrKnown, handlers, reqState, reqId, reqTimer, reqSend, reqFired, othReq, cmdVars, notDriver>>

\* onMessage of the device stores the sender's address.
LearnAddress ==
    /\ ~MicrotaskPending
    /\ ~addrKnown
    /\ addrKnown' = TRUE
    /\ UNCHANGED <<pollId, handlers, reqState, reqId, reqTimer, reqSend, reqFired, othReq, cmdVars, notDriver>>

Next ==
    \/ setModeConfiguration
    \/ setModeConfigurationResume
    \/ runListenerReturn
    \/ \E c \in Others : otherSendCommand(c)
    \/ \E c \in Others : otherResume(c)
    \/ \E r \in Reqs : \E shape \in ReplyShapes : Datagram(reqId[r], shape)
    \/ \E r \in Reqs : Timeout(r)
    \/ \E r \in Reqs : SendFail(r)
    \/ PollGetId
    \/ LearnAddress

Spec == Init /\ [][Next]_vars

\* The device never replies and no send fails: every request can only run
\* into its timeout.  Continuations run; an armed timer fires after its delay
\* and cannot be overtaken for ever by timers armed after it, although it is
\* held back each time a continuation is due (hence strong fairness).
NextSilent ==
    \/ setModeConfiguration
    \/ setModeConfigurationResume
    \/ runListenerReturn
    \/ \E c \in Others : otherSendCommand(c)
    \/ \E c \in Others : otherResume(c)
    \/ \E r \in Reqs : Timeout(r)
    \/ PollGetId
    \/ LearnAddress

SilentSpec ==
    /\ Init
    /\ [][NextSilent]_vars
    /\ \A r \in Reqs : SF_vars(Timeout(r))
    /\ WF_vars(setModeConfigurationResume)
    /\ WF_vars(runListenerReturn)
    /\ \A c \in Others : WF_vars(otherResume(c))

\* ------------------------------------------------------- cloud session
\* A caller whose call has settled runs its continuation before the next
\* HTTP response, timer or new call is processed.
CloudMicrotask == \E c \in Callers : pc[c] = "done"

\* Positions inside the function that fetchDeviceStatus assigns to
\* devicePromise, and positions awaiting login().
OwnFlight == {"F_login1", "F_status1", "F_login2", "F_status2"}
LoginWait == {"L_wait", "F_login1", "F_login2"}

\* if (this.loginPromise)
loginInFlight_Ignored(lp) == FALSE
loginInFlight(lp) == lp # 0

\* finally { this.loginPromise = undefined }: the field after the function
\* kept in loginPromise has ended, whatever the response was.
loginFinally_NotOnError(lp, kind) == IF kind = "httperr" THEN lp ELSE 0
loginFinally(lp, kind) == 0

\* login() called by c on the session fields s: hand out the promise in
\* flight, or clear the token, start the login request and keep its promise.
login(c, s) ==
    IF loginInFlight(s.loginPromise)
    THEN [s EXCEPT !.lJoin[c] = s.loginPromise]
    ELSE [s EXCEPT !.loginPromise = c, !.token = "none", !.loginNet[c] = TRUE,
                   !.lJoin[c] = c, !.loginStarts[c] = @ + 1]

LoginFields ==
    [token |-> token, loginPromise |-> loginPromise, loginNet |-> loginNet,
     lJoin |-> lJoin, loginStarts |-> loginStarts]

\* The session fields after a login() call.
SetLoginFields(s) ==
    /\ token' = s.token
    /\ loginPromise' = s.loginPromise
    /\ loginNet' = s.loginNet
    /\ lJoin' = s.lJoin
    /\ loginStarts' = s.loginStarts

\* if (this.devicePromise !== undefined)
fetchInFlight_Ignored(dp) == FALSE
fetchInFlight(dp) == dp # 0

\* if (diff < 58000)
cacheFresh_Inclusive(diff) == diff <= FreshnessMs
cacheFresh(diff) == diff < FreshnessMs

\* if (response && response.code === "8"), which only the first status
\* response of a call is tested for.
tokenRefused_Always(at, kind) == kind \in {"code8", "code8data"}
tokenRefused(at, kind) == at = "F_status1" /\ kind \in {"code8", "code8data"}

\* if (!response || !response.data) throw
usable_Any(kind) == TRUE
usable(kind) == kind \in {"data", "code8data"}

\* Callers that were handed the devicePromise of one of the calls in owners.
Joiners(owners) == {j \in Callers : pc[j] = "F_join" /\ fJoin[j] \in owners}

\* A caller calls fetchDeviceStatus().
fetchDeviceStatus(c) ==
    /\ ~CloudMicrotask
    /\ pc[c] = "idle"
    /\ hadFresh' = [hadFresh EXCEPT ![c] =
                        lastDeviceStatus # "none" /\ now - timestamp < FreshnessMs]
    /\ UNCHANGED <<lastDeviceStatus, timestamp, now, fetchCost, relogins, lastKind, notCloud>>
    /\ IF fetchInFlight(devicePromise)
       THEN /\ pc' = [pc EXCEPT ![c] = "F_join"]
            /\ fJoin' = [fJoin EXCEPT ![c] = devicePromise]
            /\ UNCHANGED <<token, loginPromise, devicePromise, loginNet, lJoin, result,
                           via, statusReqs, loginStarts>>
       ELSE IF lastDeviceStatus # "none" /\ cacheFresh(now - timestamp)
       THEN /\ pc' = [pc EXCEPT ![c] = "done"]
            /\ result' = [result EXCEPT ![c] = lastDeviceStatus]
            /\ via' = [via EXCEPT ![c] = "cache"]
            /\ UNCHANGED <<token, loginPromise, devicePromise, loginNet, fJoin, lJoin,
                           statusReqs, loginStarts>>
       ELSE /\ devicePromise' = c
            /\ UNCHANGED <<fJoin, result, via>>
            /\ IF token = "none"
               THEN /\ SetLoginFields(login(c, LoginFields))
                    /\ pc' = [pc EXCEPT ![c] = "F_login1"]
                    /\ UNCHANGED statusReqs
               ELSE /\ pc' = [pc EXCEPT ![c] = "F_status1"]
                    /\ statusReqs' = [statusReqs EXCEPT ![c] = @ + 1]
                    /\ UNCHANGED <<token, loginPromise, loginNet, lJoin, loginStarts>>

\* A caller (pairing, device initialisation) calls login() directly.
loginCall(c) ==
    /\ ~CloudMicrotask
    /\ pc[c] = "idle"
    /\ SetLoginFields(login(c, LoginFields))
    /\ pc' = [pc EXCEPT ![c] = "L_wait"]
    /\ UNCHANGED <<devicePromise, lastDeviceStatus, timestamp, now, fetchCost, fJoin, result,
                   via, statusReqs, relogins, hadFresh, lastKind, notCloud>>

\* The login request of caller o is answered: with a token and devices
\* ("ok"), without a token, with a token but no devices, or it fails.  The
\* function kept in loginPromise stores the token, clears loginPromise and
\* settles; every call awaiting the promise continues: a fetch goes on to
\* its status request, or fails and clears devicePromise.
loginResponse(o, kind) ==
    /\ ~CloudMicrotask
    /\ loginNet[o]
    /\ LET success == kind = "ok"
           W == {c \in Callers : pc[c] \in LoginWait /\ lJoin[c] = o}
           goOn == {c \in W : success /\ pc[c] \in OwnFlight}
           failed == {c \in W : ~success /\ pc[c] \in OwnFlight}
           direct == {c \in W : pc[c] = "L_wait"}
           joined == Joiners(failed)
       IN  /\ token' = IF kind \in {"ok", "nodevices"} THEN "tok" ELSE token
           /\ loginPromise' = loginFinally(loginPromise, kind)
           /\ loginNet' = [loginNet EXCEPT ![o] = FALSE]
           /\ devicePromise' = IF failed # {} THEN 0 ELSE devicePromise
           /\ pc' = [c \in Callers |->
                        IF c \in goOn
                        THEN (IF pc[c] = "F_login1" THEN "F_status1" ELSE "F_status2")
                        ELSE IF c \in failed \cup direct \cup joined THEN "done"
                        ELSE pc[c]]
           /\ statusReqs' = [c \in Callers |->
                                IF c \in goOn THEN statusReqs[c] + 1 ELSE statusReqs[c]]
           /\ result' = [c \in Callers |->
                            IF c \in direct THEN (IF success THEN "ok" ELSE "err")
                            ELSE IF c \in failed \cup joined THEN "err"
                            ELSE result[c]]
           /\ via' = [c \in Callers |->
                         IF c \in direct THEN "login"
                         ELSE IF c \in failed
                         THEN (IF pc[c] = "F_login1" THEN "l1fail" ELSE "l2fail")
                         ELSE IF c \in joined THEN "join"
                         ELSE via[c]]
    /\ UNCHANGED <<lastDeviceStatus, timestamp, now, fetchCost, fJoin, lJoin, loginStarts,
                   relogins, hadFresh, lastKind, notCloud>>

\* The status request of caller c is answered with a response of the given
\* kind (d is its data, when it has any), or fails.
statusResponse(c, kind, d) ==
    /\ ~CloudMicrotask
    /\ pc[c] \in {"F_status1", "F_status2"}
    /\ lastKind' = [lastKind EXCEPT ![c] = kind]
    /\ UNCHANGED <<now, fJoin, hadFresh, statusReqs, notCloud>>
    /\ IF tokenRefused(pc[c], kind)
       THEN /\ SetLoginFields(login(c, LoginFields))
            /\ relogins' = [relogins EXCEPT ![c] = @ + 1]
            /\ pc' = [pc EXCEPT ![c] = "F_login2"]
            /\ UNCHANGED <<devicePromise, lastDeviceStatus, timestamp, fetchCost, result, via>>
       ELSE LET out == IF usable(kind) THEN d ELSE "err"
                all == {c} \cup Joiners({c})
            IN  /\ timestamp' = IF usable(kind) THEN now ELSE timestamp
                /\ lastDeviceStatus' = IF usable(kind) THEN d ELSE lastDeviceStatus
                /\ fetchCost' = IF usable(kind)
                                THEN statusReqs[c] + loginStarts[c] ELSE fetchCost
                /\ devicePromise' = 0
                /\ pc' = [j \in Callers |-> IF j \in all THEN "done" ELSE pc[j]]
                /\ result' = [j \in Callers |-> IF j \in all THEN out ELSE result[j]]
                /\ via' = [j \in Callers |->
                              IF j = c THEN (IF pc[c] = "F_status1" THEN "s1" ELSE "s2")
                              ELSE IF j \in all THEN "join" ELSE via[j]]
                /\ UNCHANGED <<token, loginPromise, loginNet, lJoin, loginStarts, relogins>>

\* The caller's continuation has seen the outcome; its call is over.
callReturn(c) ==
    /\ pc[c] = "done"
    /\ pc' = [pc EXCEPT ![c] = "idle"]
    /\ fJoin' = [fJoin EXCEPT ![c] = 0]
    /\ lJoin' = [lJoin EXCEPT ![c] = 0]
    /\ result' = [result EXCEPT ![c] = "none"]
    /\ via' = [via EXCEPT ![c] = "none"]
    /\ statusReqs' = [statusReqs EXCEPT ![c] = 0]
    /\ loginStarts' = [loginStarts EXCEPT ![c] = 0]
    /\ relogins' = [relogins EXCEPT ![c] = 0]
    /\ hadFresh' = [hadFresh EXCEPT ![c] = FALSE]
    /\ lastKind' = [lastKind EXCEPT ![c] = "none"]
    /\ UNCHANGED <<sessionVars, notCloud>>

\* Time passes.
Tick(d) ==
    /\ ~CloudMicrotask
    /\ now + d <= MaxClock
    /\ now' = now + d
    /\ UNCHANGED <<token, loginPromise, devicePromise, lastDeviceStatus, timestamp, loginNet,
                   fetchCost, callerVars, notCloud>>

NextCloud ==
    \/ \E c \in Callers : fetchDeviceStatus(c)
    \/ \E c \in Callers : loginCall(c)
    \/ \E o \in Callers : \E kind \in LoginKinds : loginResponse(o, kind)
    \/ \E c \in Callers : \E kind \in StatusKinds : \E d \in DataVals : statusResponse(c, kind, d)
    \/ \E c \in Callers : callReturn(c)
    \/ \E d \in ClockSteps : Tick(d)

\* The session on its own: the driver stays as one of its initial states.
InitSession == Init /\ pollId = 0 /\ ~addrKnown

SpecCloud == InitSession /\ [][NextCloud]_vars

\* -------------------------------------------------------- poll interval
\* The body of devices.forEach in getPollInterval, for a device whose
\* 'interval' setting is seconds (0: the setting is missing).
forEachDevice_NoMinimum(interval, seconds) ==
    LET found == IF seconds # 0 THEN seconds ELSE interval
    IN  IF found = 0 \/ found < floorSeconds THEN fallbackSeconds ELSE found
forEachDevice(interval, seconds) ==
    LET found == IF seconds # 0 /\ seconds < interval THEN seconds ELSE interval
    IN  IF found = 0 \/ found < floorSeconds THEN fallbackSeconds ELSE found

RECURSIVE forEach(_, _, _)
forEach(devs, k, interval) ==
    IF k > Len(devs) THEN interval
    ELSE forEach(devs, k + 1, forEachDevice(interval, devs[k]))

\* getPollInterval over the devices devs, with the random part drawn as jitter.
getPollInterval(devs, jitter) == forEach(devs, 1, startSeconds) * 1000 + jitter

\* Device lists of up to MaxDevices devices.
RECURSIVE DeviceLists(_)
DeviceLists(n) ==
    IF n = 0 THEN {<<>>}
    ELSE DeviceLists(n - 1) \cup
         {Append(l, s) : l \in {x \in DeviceLists(n - 1) : Len(x) = n - 1}, s \in IntervalSettings}

\* The driver with its devices paired, before the interval is computed.
InitSched ==
    /\ InitDriver /\ pollId = 0 /\ ~addrKnown
    /\ InitCloud
    /\ InitIdle
    /\ address = <<>>
    /\ pollCfg = <<>>
    /\ devices \in DeviceLists(MaxDevices)
    /\ pollMs = 0

\* pollStart or pollIntervalUpdate calls getPollInterval.
getPollIntervalCall ==
    /\ pollMs = 0
    /\ \E jitter \in 0..JitterMax : pollMs' = getPollInterval(devices, jitter)
    /\ UNCHANGED <<devices, notSched>>

NextSched == getPollIntervalCall

SpecSched == InitSched /\ [][NextSched]_vars

\* ---------------------------------------------------------- poll timer
\* Device d of getDevices() has the 'src' setting d.
DeviceIds == 1..Len(devices)

\* The interval timers that are armed and the handle a new one gets.
Armed == {t.h : t \in timers}
NewHandle == IF timers = {} THEN 1 ELSE 1 + (CHOOSE m \in Armed : \A x \in Armed : x <= m)

\* homey.clearInterval(handle)
clearInterval_Noop(ts, handle) == ts
clearInterval(ts, handle) == {t \in ts : t.h # handle}

\* const index = this.pollDevices.indexOf(device); if (index !== -1) this.pollDevices.splice(index, 1)
RECURSIVE indexOf(_, _, _)
indexOf(s, x, k) == IF k > Len(s) THEN 0 ELSE IF s[k] = x THEN k ELSE indexOf(s, x, k + 1)
splice(s, k) == [j \in 1..(Len(s) - 1) |-> IF j < k THEN s[j] ELSE s[j + 1]]

\* if (!this.pollTimeout) in pollStart
timerMissing_Always(pt) == TRUE
timerMissing(pt) == pt = 0

\* pollStart(device): track the device; without a timer, compute the
\* interval over all devices of the driver, start the timer and call poll().
pollStart(d) ==
    /\ Len(pollDevices) < MaxPollers
    /\ pollDevices' = Append(pollDevices, d)
    /\ lastCall' = "pollStart"
    /\ IF timerMissing(pollTimeout)
       THEN \E jitter \in 0..JitterMax :
               /\ timers' = timers \cup {[h |-> NewHandle, ms |-> getPollInterval(devices, jitter)]}
               /\ pollTimeout' = NewHandle
               /\ pollCalled' = TRUE
       ELSE /\ pollCalled' = FALSE
            /\ UNCHANGED <<timers, pollTimeout>>
    /\ UNCHANGED <<devices, notTimer>>

\* pollStop(device): remove the device's first entry; stop the timer when
\* no entry is left.
pollStop(d) ==
    /\ LET index == indexOf(pollDevices, d, 1)
           left == IF index # 0 THEN splice(pollDevices, index) ELSE pollDevices
       IN  /\ pollDevices' = left
           /\ IF pollTimeout # 0 /\ Len(left) = 0
              THEN /\ timers' = clearInterval(timers, pollTimeout)
                   /\ pollTimeout' = 0
              ELSE UNCHANGED <<timers, pollTimeout>>
    /\ pollCalled' = FALSE
    /\ lastCall' = "pollStop"
    /\ UNCHANGED <<devices, notTimer>>

\* pollIntervalUpdate(): with a timer running, replace it by one with the
\* interval computed anew.
pollIntervalUpdate ==
    /\ IF pollTimeout # 0
       THEN \E jitter \in 0..JitterMax :
               LET kept == clearInterval(timers, pollTimeout)
                   handle == IF kept = {} THEN 1
                             ELSE 1 + (CHOOSE m \in {t.h : t \in kept} : \A t \in kept : t.h <= m)
               IN  /\ timers' = kept \cup {[h |-> handle, ms |-> getPollInterval(devices, jitter)]}
                   /\ pollTimeout' = handle
       ELSE UNCHANGED <<timers, pollTimeout>>
    /\ pollCalled' = FALSE
    /\ lastCall' = "pollIntervalUpdate"
    /\ UNCHANGED <<devices, pollDevices, notTimer>>

\* The user changes the 'interval' setting of device d to s.
settingsChanged(d, s) ==
    /\ devices[d] # s
    /\ devices' = [devices EXCEPT ![d] = s]
    /\ pollCalled' = FALSE
    /\ lastCall' = "settings"
    /\ UNCHANGED <<pollDevices, pollTimeout, timers, notTimer>>

\* The driver with its devices paired and none of them polling yet.
InitTimer ==
    /\ InitDriver /\ pollId = 0 /\ ~addrKnown
    /\ InitCloud
    /\ InitIdle
    /\ address = <<>>
    /\ pollCfg = <<>>
    /\ devices \in {l \in DeviceLists(MaxPollers) :
                        Len(l) >= 1 /\ \A k \in 1..Len(l) : l[k] \in TimerSettings}
    /\ pollMs = 0

NextTimer ==
    \/ \E d \in DeviceIds : pollStart(d)
    \/ \E d \in DeviceIds : pollStop(d)
    \/ pollIntervalUpdate
    \/ \E d \in DeviceIds : \E s \in TimerSettings : settingsChanged(d, s)

SpecTimer == InitTimer /\ [][NextTimer]_vars

\* ------------------------------------------------------------ poll run
\* What poll() reads of a device, in the order it tests it: the 'broadcast'
\* setting is set ("broadcast"); else the 'src' setting is missing ("nosrc");
\* else src is not in pollDevices ("notpolling"); else no address is stored
\* ("noaddress"); else the device gets the message by unicast ("unicast").
PollKinds == {"broadcast", "nosrc", "notpolling", "noaddress", "unicast"}

RECURSIVE KindLists(_)
KindLists(n) ==
    IF n = 0 THEN {<<>>}
    ELSE KindLists(n - 1) \cup
         {Append(l, s) : l \in {x \in KindLists(n - 1) : Len(x) = n - 1}, s \in PollKinds}

\* catch (err) { this.error('Error sending to device:', err) } around the
\* work for one device: the loop goes on with the next device.
deviceCatch_Missing == "throw"
deviceCatch == "nextDevice"

\* catch (err) { this.error('Error transmitting:', err) } around the work
\* for one message: the loop goes on with the next message.
messageCatch_Missing == "throw"
messageCatch == "nextMessage"

\* if (broadcastSetting) alsoBroadcast = true
alsoAfter_Kept(also) == also
alsoAfter(also) == TRUE

\* The loop over the devices for message m from device k on, up to the next
\* await: the socket.send to a device, the broadcast after the loop, the
\* delay after the message, or an error that leaves the loop.
RECURSIVE forDevices(_, _, _, _)
forDevices(m, k, also, log) ==
    IF k > Len(pollCfg)
    THEN IF also
         THEN [at |-> "also", dev |-> 0, also |-> also, log |-> Append(log, <<m, 0>>)]
         ELSE [at |-> "wait200", dev |-> 0, also |-> also, log |-> log]
    ELSE CASE pollCfg[k] = "broadcast" -> forDevices(m, k + 1, alsoAfter(also), log)
           [] pollCfg[k] = "nosrc" ->
                  IF deviceCatch = "nextDevice" THEN forDevices(m, k + 1, also, log)
                  ELSE [at |-> "throw", dev |-> k, also |-> also, log |-> log]
           [] pollCfg[k] \in {"notpolling", "noaddress"} -> forDevices(m, k + 1, also, log)
           [] OTHER -> [at |-> "send", dev |-> k, also |-> also, log |-> Append(log, <<m, k>>)]

\* The loop over pollMessages from message m on, up to the next await or the
\* end of poll(): each message takes an identifier, a broadcast message is
\* broadcast, any other goes through the devices.  An error thrown out of
\* the work for a message is caught and the next message follows.
RECURSIVE forMessages(_, _, _, _)
forMessages(m, pid, log, tk) ==
    IF m > Len(pollMessages)
    THEN {[at |-> "done", msg |-> m, dev |-> 0, also |-> FALSE, log |-> log, taken |-> tk,
           pid |-> pid, result |-> "resolved"]}
    ELSE UNION {
        IF pollMessages[m]
        THEN {[at |-> "bcast", msg |-> m, dev |-> 0, also |-> FALSE,
               log |-> Append(log, <<m, 0>>), taken |-> Append(tk, m), pid |-> id,
               result |-> "running"]}
        ELSE LET r == forDevices(m, 1, FALSE, log)
             IN  IF r.at = "throw"
                 THEN IF messageCatch = "nextMessage"
                      THEN forMessages(m + 1, id, r.log, Append(tk, m))
                      ELSE {[at |-> "done", msg |-> m, dev |-> r.dev, also |-> r.also,
                             log |-> r.log, taken |-> Append(tk, m), pid |-> id,
                             result |-> "rejected"]}
                 ELSE {[at |-> r.at, msg |-> m, dev |-> r.dev, also |-> r.also,
                        log |-> r.log, taken |-> Append(tk, m), pid |-> id,
                        result |-> "running"]}
        : id \in getUniqueID(pid)}

\* The run of poll() continues inside message m after the work for one
\* device: r is where the loop over the devices stops next.
Within(m, r) ==
    IF r.at = "throw"
    THEN IF messageCatch = "nextMessage"
         THEN forMessages(m + 1, pollId, r.log, taken)
         ELSE {[at |-> "done", msg |-> m, dev |-> r.dev, also |-> r.also, log |-> r.log,
                taken |-> taken, pid |-> pollId, result |-> "rejected"]}
    ELSE {[at |-> r.at, msg |-> m, dev |-> r.dev, also |-> r.also, log |-> r.log,
           taken |-> taken, pid |-> pollId, result |-> "running"]}

\* The position of the followed run becomes p.
SetRun(p) ==
    /\ runAt' = p.at
    /\ runMsg' = p.msg
    /\ runDev' = p.dev
    /\ alsoBroadcast' = p.also
    /\ txLog' = p.log
    /\ taken' = p.taken
    /\ pollId' = p.pid
    /\ runResult' = p.result

\* poll() is called: by pollStart itself or by the timer it armed ("start",
\* with a catch on the returned promise), or by the timer that
\* pollIntervalUpdate armed ("update", where the promise is returned to the
\* timer).  The model follows the run that starts.
poll(by) ==
    /\ runBy' = by
    /\ firstFailed' = <<>>
    /\ \E p \in forMessages(1, pollId, <<>>, <<>>) : SetRun(p)
    /\ UNCHANGED <<pollCfg, notRun>>

\* The socket.send or socket.broadcast the run awaits settles.
transmitSettles(ok) ==
    /\ runAt \in {"send", "bcast", "also"}
    /\ firstFailed' = IF ~ok /\ firstFailed = <<>> THEN <<runMsg, runDev>> ELSE firstFailed
    /\ IF ok
       THEN /\ runAt' = IF runAt = "send" THEN "wait100" ELSE "wait200"
            /\ UNCHANGED <<runMsg, runDev, alsoBroadcast, txLog, taken, pollId, runResult>>
       ELSE IF runAt = "send"
       THEN \E p \in (IF deviceCatch = "nextDevice"
                      THEN Within(runMsg, forDevices(runMsg, runDev + 1, alsoBroadcast, txLog))
                      ELSE Within(runMsg, [at |-> "throw", dev |-> runDev,
                                           also |-> alsoBroadcast, log |-> txLog])) :
               SetRun(p)
       ELSE \E p \in Within(runMsg, [at |-> "throw", dev |-> 0, also |-> alsoBroadcast,
                                     log |-> txLog]) :
               SetRun(p)
    /\ UNCHANGED <<pollCfg, runBy, notRun>>

\* The delay the run awaits (100 ms after a send, 200 ms after a message)
\* has passed.
delayElapsed ==
    /\ runAt \in {"wait100", "wait200"}
    /\ IF runAt = "wait100"
       THEN \E p \in Within(runMsg, forDevices(runMsg, runDev + 1, alsoBroadcast, txLog)) :
               SetRun(p)
       ELSE \E p \in forMessages(runMsg + 1, pollId, txLog, taken) : SetRun(p)
    /\ UNCHANGED <<pollCfg, runBy, firstFailed, notRun>>

\* The driver with its devices as poll() finds them, no run started yet.
InitRun ==
    /\ InitDriver /\ pollId = 0 /\ ~addrKnown
    /\ InitCloud
    /\ InitIdle
    /\ address = <<>>
    /\ devices = <<>>
    /\ pollMs = 0
    /\ pollCfg \in KindLists(MaxPollers)

NextRun ==
    \/ \E by \in {"start", "update"} : poll(by)
    \/ \E ok \in BOOLEAN : transmitSettles(ok)
    \/ delayElapsed

SpecRun == InitRun /\ [][NextRun]_vars

\* ------------------------------------------------------ broadcastDetect
\* A datagram as the discovery handler sees it: json.src (0: none),
\* json.result ("none": no result, "plain": a result without a device
\* field, "device": a result with one) and remote.address.
Tags == 0..MaxTags
Results == {"none", "plain", "device"}
Addresses == 1..MaxAddrs

\* devices.find((element) => element.data.id === unique)
find_Never(devs, unique) == FALSE
find(devs, unique) == \E i \in 1..Len(devs) : devs[i].id = unique

\* The handler of broadcastDetect on one datagram: the list afterwards.
detectHandler(devs, src, res, addr) ==
    IF src # 0 /\ res = "device"
    THEN IF ~find(devs, src) THEN Append(devs, [id |-> src, address |-> addr]) ELSE devs
    ELSE devs

\* broadcastDetect is called (the model follows one discovery at a time):
\* the handler is registered and the first sendMessage() starts.
broadcastDetect ==
    /\ detState \in {"idle", "resolved", "rejected"}
    /\ detState' = "sending"
    /\ detDevices' = <<>>
    /\ detResult' = <<>>
    /\ handlers' = on(handlers, DetectHandler)
    /\ firstAddr' = [s \in 1..MaxTags |-> 0]
    /\ dupSeen' = FALSE
    /\ detFirst' = "pending"
    /\ UNCHANGED <<detInterval, detTimer, elapsed, nextResend, resent, notDetect>>

\* The first sendMessage() settles.  Resolved: the 2 s interval and the 9 s
\* timeout are armed.  Rejected: the handler is removed and the promise of
\* broadcastDetect is rejected.
firstSendSettles(ok) ==
    /\ detState = "sending"
    /\ detFirst' = IF ok THEN "ok" ELSE "failed"
    /\ IF ok
       THEN /\ detState' = "window"
            /\ detInterval' = TRUE
            /\ detTimer' = TRUE
            /\ elapsed' = 0
            /\ nextResend' = ResendSeconds
            /\ resent' = 0
            /\ UNCHANGED handlers
       ELSE /\ detState' = "rejected"
            /\ handlers' = off(handlers, DetectHandler)
            /\ UNCHANGED <<detInterval, detTimer, elapsed, nextResend, resent>>
    /\ UNCHANGED <<detDevices, detResult, firstAddr, dupSeen, notDetect>>

\* A datagram is dispatched to the registered discovery handler.
detectDatagram(src, res, addr) ==
    /\ InRegistry(DetectHandler)
    /\ detDevices' = detectHandler(detDevices, src, res, addr)
    /\ LET marked == src # 0 /\ res = "device" IN
       /\ firstAddr' = IF marked /\ firstAddr[src] = 0
                       THEN [firstAddr EXCEPT ![src] = addr] ELSE firstAddr
       /\ dupSeen' = (dupSeen \/ (marked /\ firstAddr[src] \notin {0, addr}))
    /\ UNCHANGED <<detState, detResult, handlers, detFirst, detInterval, detTimer, elapsed,
                   nextResend, resent, notDetect>>

\* A second passes during which no timer of the discovery is due.
detectTick ==
    /\ detTimer \/ detInterval
    /\ detTimer => elapsed < WindowSeconds
    /\ detInterval => elapsed < nextResend
    /\ elapsed < WindowSeconds + ResendSeconds
    /\ elapsed' = elapsed + 1
    /\ UNCHANGED <<detState, detDevices, detResult, handlers, firstAddr, dupSeen, detFirst,
                   detInterval, detTimer, nextResend, resent, notDetect>>

\* The interval fires: sendMessage() once more; nothing looks at its promise.
resend ==
    /\ detInterval
    /\ elapsed = nextResend
    /\ nextResend' = nextResend + ResendSeconds
    /\ resent' = resent + 1
    /\ UNCHANGED <<detState, detDevices, detResult, handlers, firstAddr, dupSeen, detFirst,
                   detInterval, detTimer, elapsed, notDetect>>

\* The timeout fires: the interval is cleared, the handler removed and the
\* promise resolved with the list.
windowElapsed ==
    /\ detTimer
    /\ elapsed = WindowSeconds
    /\ detTimer' = FALSE
    /\ detInterval' = FALSE
    /\ handlers' = off(handlers, DetectHandler)
    /\ detState' = "resolved"
    /\ detResult' = detDevices
    /\ UNCHANGED <<detDevices, firstAddr, dupSeen, detFirst, elapsed, nextResend, resent,
                   notDetect>>

InitDetect ==
    /\ InitDriver /\ pollId = 0 /\ ~addrKnown
    /\ InitCloud
    /\ InitIdle
    /\ address = <<>>
    /\ pollCfg = <<>>
    /\ devices = <<>>
    /\ pollMs = 0

NextDetect ==
    \/ broadcastDetect
    \/ \E ok \in BOOLEAN : firstSendSettles(ok)
    \/ \E src \in Tags, res \in Results, addr \in Addresses : detectDatagram(src, res, addr)
    \/ detectTick
    \/ resend
    \/ windowElapsed

SpecDetect == InitDetect /\ [][NextDetect]_vars

\* The event loop runs every timer that is due, time passes, and the socket
\* reports the outcome of the first send.
SpecDetectFair ==
    /\ SpecDetect
    /\ WF_vars(\E ok \in BOOLEAN : firstSendSettles(ok))
    /\ WF_vars(detectTick)
    /\ WF_vars(resend)
    /\ WF_vars(windowElapsed)

\* ----------------------------------------------------- receive callback
\* What a registered handler does when it is called with a datagram: run
\* and stay registered ("keep"), call socket.off on itself before it returns
\* as the handler of sendCommand does for its reply ("leave"), throw
\* ("throw"), or return a promise that is rejected ("reject").
Behaviours == {"keep", "leave", "throw", "reject"}
HandlerIds == 1..MaxHandlers

\* async (handler) => { try { await handler(json, remote) } catch (err)
\* { this.error(...) } }: the arrow function called for a handler catches
\* what the handler throws and what its promise is rejected with.
arrow_Sync(b) == IF b = "throw" THEN "thrown" ELSE IF b = "reject" THEN "caught" ELSE "ok"
arrow(b) == IF b \in {"throw", "reject"} THEN "caught" ELSE "ok"

\* this.handlers.map(...) from index k on: map reads the length n once,
\* visits the indices below n that the array still has, and calls the arrow
\* function with the element it finds there at that moment.
RECURSIVE map(_, _, _, _, _)
map(k, n, hs, inv, beh) ==
    IF k > n THEN [hs |-> hs, invoked |-> inv, thrown |-> FALSE]
    ELSE IF k > Len(hs) THEN map(k + 1, n, hs, inv, beh)
    ELSE IF arrow(beh[hs[k]]) = "thrown"
         THEN [hs |-> hs, invoked |-> Append(inv, hs[k]), thrown |-> TRUE]
         ELSE map(k + 1, n, IF beh[hs[k]] = "leave" THEN off(hs, hs[k]) ELSE hs,
                  Append(inv, hs[k]), beh)

\* The behaviours that matter for a dispatch: handlers that are not
\* registered when the datagram arrives are not considered.
Relevant(beh) == \A h \in HandlerIds : ~InRegistry(h) => beh[h] = "keep"
AllKeep == [h \in HandlerIds |-> "keep"]

\* The message callback of the socket for one datagram: from the local
\* address it is ignored; else it is parsed and, when that works, handed to
\* callback(), which maps over the handlers and awaits them all; whatever is
\* thrown on the way is caught and logged.
message(addr, parses, beh) ==
    /\ lastAddr' = addr
    /\ lastParsed' = parses
    /\ before' = handlers
    /\ IF addr = "local"
       THEN /\ rxOutcome' = "ignored"
            /\ invoked' = <<>>
            /\ lastBeh' = AllKeep
            /\ UNCHANGED handlers
       ELSE IF ~parses
       THEN /\ rxOutcome' = "caught"
            /\ invoked' = <<>>
            /\ lastBeh' = AllKeep
            /\ UNCHANGED handlers
       ELSE LET d == map(1, Len(handlers), handlers, <<>>, beh) IN
            /\ rxOutcome' = IF d.thrown THEN "caught" ELSE "dispatched"
            /\ invoked' = d.invoked
            /\ lastBeh' = beh
            /\ handlers' = d.hs
    /\ UNCHANGED notRecv

\* socket.on(handler) outside a dispatch: a device starts listening, a
\* command or a discovery registers its handler.
register(h) ==
    /\ handlers' = on(handlers, h)
    /\ rxOutcome' = "none"
    /\ invoked' = <<>>
    /\ before' = <<>>
    /\ lastBeh' = AllKeep
    /\ lastAddr' = "none"
    /\ lastParsed' = FALSE
    /\ UNCHANGED notRecv

\* socket.off(handler) outside a dispatch: a device stops listening, a
\* command times out, a discovery ends.
unregister(h) ==
    /\ handlers' = off(handlers, h)
    /\ rxOutcome' = "none"
    /\ invoked' = <<>>
    /\ before' = <<>>
    /\ lastBeh' = AllKeep
    /\ lastAddr' = "none"
    /\ lastParsed' = FALSE
    /\ UNCHANGED notRecv

InitRecv ==
    /\ InitDriver /\ pollId = 0 /\ ~addrKnown
    /\ InitCloud
    /\ InitIdle
    /\ address = <<>>
    /\ pollCfg = <<>>
    /\ devices = <<>>
    /\ pollMs = 0

NextRecv ==
    \/ \E h \in HandlerIds : register(h)
    \/ \E h \in HandlerIds : unregister(h)
    \/ \E addr \in {"local", "other"}, parses \in BOOLEAN :
          \E beh \in (IF addr = "other" /\ parses
                      THEN {b \in [HandlerIds -> Behaviours] : Relevant(b)}
                      ELSE {AllKeep}) :
              message(addr, parses, beh)

SpecRecv == InitRecv /\ [][NextRecv]_vars

\* ------------------------------------------------------------ transport
Senders == 1..MaxSenders

\* The fields of the MarstekSocket that connect() and disconnect() work on.
Transport == [sock |-> sock, connected |-> connected, created |-> created, closing |-> closing]

SetTransport(t) ==
    /\ sock' = t.sock
    /\ connected' = t.connected
    /\ created' = t.created
    /\ closing' = t.closing

\* disconnect(): close the dgram socket, if there is one, and forget it;
\* the socket will emit 'close'.
disconnect(t) ==
    [t EXCEPT !.sock = "none", !.connected = FALSE,
              !.closing = IF t.sock # "none" THEN @ + 1 ELSE @]

\* destroy() empties the registry; disconnect() leaves it alone.
registryAfterDisconnect_Cleared(hs) == <<>>
registryAfterDisconnect(hs) == hs

\* connect(): if (this.socket && this.connected)
alreadyConnected_Never(t) == FALSE
alreadyConnected(t) == t.sock # "none" /\ t.connected

\* The executor of the promise connect() returns.  Already connected: the
\* promise is resolved at once.  Else a socket that is left is closed, a new
\* one is created and bound, and the promise waits for the bind callback;
\* when creating or binding throws, the socket is dropped and the promise
\* is rejected.
connectExecutor(t, throws) ==
    IF alreadyConnected(t)
    THEN [t |-> t, promise |-> "resolved"]
    ELSE LET left == IF t.sock # "none" THEN disconnect(t) ELSE t
             made == [left EXCEPT !.sock = "binding", !.created = @ + 1]
         IN  IF throws
             THEN [t |-> disconnect(made), promise |-> "rejected"]
             ELSE [t |-> made, promise |-> "pending"]

\* this.socket?.send(buffer, ..., callback) in transmit, for call c: without
\* a socket nothing is called and the promise never settles; send may throw;
\* else the datagram is with the socket and the callback will come.
socketSend(c, t, throws) ==
    IF t.sock = "none"
    THEN /\ txAt' = [txAt EXCEPT ![c] = "stuck"]
         /\ txResult' = [txResult EXCEPT ![c] = "none"]
         /\ handed' = [handed EXCEPT ![c] = FALSE]
    ELSE IF throws
    THEN /\ txAt' = [txAt EXCEPT ![c] = "done"]
         /\ txResult' = [txResult EXCEPT ![c] = "rejected"]
         /\ handed' = [handed EXCEPT ![c] = FALSE]
    ELSE /\ txAt' = [txAt EXCEPT ![c] = "sending"]
         /\ txResult' = [txResult EXCEPT ![c] = "none"]
         /\ handed' = [handed EXCEPT ![c] = TRUE]

\* send() or broadcast() is called (call c): transmit connects first when
\* the transport is not connected; a rejected connect() is logged and
\* transmit returns.
transmit(c) ==
    /\ txAt[c] \in {"idle", "done"}
    /\ lastEv' = "transmit"
    /\ IF ~connected
       THEN \E throws \in BOOLEAN :
               LET r == connectExecutor(Transport, throws) IN
               /\ r.t.created <= MaxSockets
               /\ SetTransport(r.t)
               /\ IF r.promise = "pending"
                  THEN /\ txAt' = [txAt EXCEPT ![c] = "connecting"]
                       /\ txResult' = [txResult EXCEPT ![c] = "none"]
                       /\ handed' = [handed EXCEPT ![c] = FALSE]
                       /\ waitGen' = [waitGen EXCEPT ![c] = r.t.created]
                  ELSE /\ txAt' = [txAt EXCEPT ![c] = "done"]
                       /\ txResult' = [txResult EXCEPT ![c] = "resolved"]
                       /\ handed' = [handed EXCEPT ![c] = FALSE]
                       /\ UNCHANGED waitGen
       ELSE /\ \E throws \in BOOLEAN : socketSend(c, Transport, throws)
            /\ UNCHANGED <<sock, connected, created, closing, waitGen>>
    /\ UNCHANGED <<handlers, destroyed, cnResult, failedWith, rxVars, notSock>>

\* connect() is called directly.
connect ==
    /\ lastEv' = "connect"
    /\ \E throws \in BOOLEAN :
          LET r == connectExecutor(Transport, throws) IN
          /\ r.t.created <= MaxSockets
          /\ SetTransport(r.t)
          /\ cnResult' = r.promise
    /\ UNCHANGED <<handlers, destroyed, txAt, txResult, handed, waitGen, failedWith, rxVars, notSock>>

\* The calls whose connect() waits for the bind of the current socket.
Waiting(c) == txAt[c] = "connecting" /\ waitGen[c] = created

\* The bind callback of the current socket.  setBroadcast(true) works: the
\* transport is connected, the promise is resolved and the waiting transmit
\* calls hand their datagram to the socket.  It throws: the socket is
\* dropped, the promise is rejected and the waiting transmit calls return.
bound(ok) ==
    /\ sock = "binding"
    /\ lastEv' = IF ok THEN "bound" ELSE "bindFailed"
    /\ IF ok
       THEN /\ sock' = "bound"
            /\ connected' = TRUE
            /\ UNCHANGED <<created, closing>>
            /\ txAt' = [c \in Senders |-> IF Waiting(c) THEN "sending" ELSE txAt[c]]
            /\ handed' = [c \in Senders |-> IF Waiting(c) THEN TRUE ELSE handed[c]]
            /\ UNCHANGED txResult
            /\ cnResult' = IF cnResult = "pending" THEN "resolved" ELSE cnResult
       ELSE /\ SetTransport(disconnect([Transport EXCEPT !.sock = "bound"]))
            /\ txAt' = [c \in Senders |-> IF Waiting(c) THEN "done" ELSE txAt[c]]
            /\ txResult' = [c \in Senders |-> IF Waiting(c) THEN "resolved" ELSE txResult[c]]
            /\ UNCHANGED handed
            /\ cnResult' = IF cnResult = "pending" THEN "rejected" ELSE cnResult
    /\ UNCHANGED <<handlers, destroyed, waitGen, failedWith, rxVars, notSock>>

\* The callback of socket.send for call c.
sendCallback(c, ok) ==
    /\ txAt[c] = "sending"
    /\ lastEv' = "sent"
    /\ txAt' = [txAt EXCEPT ![c] = "done"]
    /\ txResult' = [txResult EXCEPT ![c] = IF ok THEN "resolved" ELSE "rejected"]
    /\ UNCHANGED <<sock, connected, created, closing, handlers, destroyed, handed, waitGen,
                   cnResult, failedWith, rxVars, notSock>>

\* The dgram socket emits 'error': disconnect() and connected = false.
errorEvent ==
    /\ sock # "none"
    /\ lastEv' = "error"
    /\ SetTransport(disconnect(Transport))
    /\ handlers' = registryAfterDisconnect(handlers)
    /\ failedWith' = handlers
    /\ UNCHANGED <<destroyed, txAt, txResult, handed, waitGen, cnResult, rxVars, notSock>>

\* A closed dgram socket emits 'close': connected = false.
closeEvent ==
    /\ closing > 0
    /\ lastEv' = "close"
    /\ closing' = closing - 1
    /\ connected' = FALSE
    /\ failedWith' = handlers
    /\ UNCHANGED <<sock, created, handlers, destroyed, txAt, txResult, handed, waitGen, cnResult,
                   rxVars, notSock>>

\* A datagram from another host that parses arrives on the bound socket
\* and is handed to callback(); the handlers return normally.
receive ==
    /\ sock = "bound"
    /\ lastEv' = "message"
    /\ LET d == map(1, Len(handlers), handlers, <<>>, AllKeep) IN
       /\ rxOutcome' = "dispatched"
       /\ lastAddr' = "other"
       /\ lastParsed' = TRUE
       /\ before' = handlers
       /\ lastBeh' = AllKeep
       /\ invoked' = d.invoked
       /\ handlers' = d.hs
    /\ UNCHANGED <<sock, connected, created, closing, destroyed, txAt, txResult, handed, waitGen,
                   cnResult, failedWith, notSock>>

InitSock ==
    /\ InitDriver /\ pollId = 0 /\ ~addrKnown
    /\ InitCloud
    /\ InitIdle
    /\ address = <<>>
    /\ pollCfg = <<>>
    /\ devices = <<>>
    /\ pollMs = 0

NextSock ==
    \/ \E c \in Senders : transmit(c)
    \/ connect
    \/ \E ok \in BOOLEAN : bound(ok)
    \/ \E c \in Senders, ok \in BOOLEAN : sendCallback(c, ok)
    \/ errorEvent
    \/ closeEvent

SpecSock == InitSock /\ [][NextSock]_vars

\* The transport with handlers registered and datagrams arriving, one call
\* of send() or broadcast() at a time.
NextRebind ==
    \/ transmit(1)
    \/ \E ok \in BOOLEAN : bound(ok)
    \/ \E ok \in BOOLEAN : sendCallback(1, ok)
    \/ errorEvent
    \/ closeEvent
    \/ \E h \in HandlerIds : register(h)
    \/ receive

SpecRebind == InitSock /\ [][NextRebind]_vars

\* ------------------------------------------------------------- teardown
\* The poll timer of the driver as pollStart, pollStop and
\* pollIntervalUpdate leave it, for the calls a device makes in onInit and
\* in onUninit / onDeleted.
PollTimer == [pollDevices |-> pollDevices, pollTimeout |-> pollTimeout, timers |-> timers]

handleAfter(ts) == IF ts = {} THEN 1 ELSE 1 + (CHOOSE m \in {t.h : t \in ts} : \A t \in ts : t.h <= m)

afterPollIntervalUpdate(t, ms) ==
    IF t.pollTimeout # 0
    THEN LET kept == clearInterval(t.timers, t.pollTimeout) IN
         [t EXCEPT !.timers = kept \cup {[h |-> handleAfter(kept), ms |-> ms]},
                   !.pollTimeout = handleAfter(kept)]
    ELSE t

afterPollStart(t, d, ms) ==
    LET a == [t EXCEPT !.pollDevices = Append(@, d)] IN
    IF timerMissing(t.pollTimeout)
    THEN [a EXCEPT !.timers = @ \cup {[h |-> handleAfter(t.timers), ms |-> ms]},
                   !.pollTimeout = handleAfter(t.timers)]
    ELSE a

afterPollStop(t, d) ==
    LET index == indexOf(t.pollDevices, d, 1)
        left == IF index # 0 THEN splice(t.pollDevices, index) ELSE t.pollDevices
    IN  IF t.pollTimeout # 0 /\ Len(left) = 0
        THEN [t EXCEPT !.pollDevices = left, !.timers = clearInterval(@, t.pollTimeout),
                       !.pollTimeout = 0]
        ELSE [t EXCEPT !.pollDevices = left]

SetPollTimer(t) ==
    /\ pollDevices' = t.pollDevices
    /\ pollTimeout' = t.pollTimeout
    /\ timers' = t.timers

\* MarstekVenusDevice.onInit of device d, up to its first await that waits
\* for the network: startListening(); polls is what the stored 'poll'
\* setting of the device says.  resetCapabilities() and
\* sendInitialRequests() (three broadcasts, 500 ms after each) are awaited
\* before the rest runs.
deviceOnInit(d, polls) ==
    /\ ~destroyed
    /\ d \notin running \cup gone
    /\ running' = running \cup {d}
    /\ awaiting' = awaiting \cup {d}
    /\ pollOn' = IF polls THEN pollOn \cup {d} ELSE pollOn \ {d}
    /\ UNCHANGED gone
    /\ handlers' = on(handlers, d)
    /\ pollCalled' = FALSE
    /\ lastCall' = "onInit"
    /\ UNCHANGED <<pollDevices, pollTimeout, timers, notLife>>

\* onInit of device d goes on after its awaits: with the 'poll' setting on,
\* pollIntervalUpdate() and startPolling().
deviceOnInitResume(d) ==
    /\ d \in awaiting
    /\ awaiting' = awaiting \ {d}
    /\ IF d \in pollOn
       THEN \E jitter \in 0..JitterMax :
               SetPollTimer(afterPollStart(
                   afterPollIntervalUpdate(PollTimer, getPollInterval(devices, jitter)),
                   d, getPollInterval(devices, jitter)))
       ELSE UNCHANGED <<pollDevices, pollTimeout, timers>>
    /\ pollCalled' = (d \in pollOn /\ timerMissing(pollTimeout))
    /\ lastCall' = "onInitResume"
    /\ UNCHANGED <<running, gone, pollOn, handlers, notLife>>

\* MarstekVenusDevice.onSettings of device d with 'poll' among the changed
\* keys: startPolling() when the new value is on, stopPolling() otherwise.
onSettings(d) ==
    /\ d \in running
    /\ IF d \notin pollOn
       THEN /\ pollOn' = pollOn \cup {d}
            /\ \E jitter \in 0..JitterMax :
                  SetPollTimer(afterPollStart(PollTimer, d, getPollInterval(devices, jitter)))
            /\ pollCalled' = timerMissing(pollTimeout)
       ELSE /\ pollOn' = pollOn \ {d}
            /\ SetPollTimer(afterPollStop(PollTimer, d))
            /\ pollCalled' = FALSE
    /\ lastCall' = "onSettings"
    /\ UNCHANGED <<running, gone, awaiting, handlers, notLife>>

\* MarstekVenusDevice.onUninit / onDeleted of device d: stopPolling() and
\* stopListening().
deviceOnUninit(d) ==
    /\ d \in running
    /\ running' = running \ {d}
    /\ gone' = gone \cup {d}
    /\ SetPollTimer(afterPollStop(PollTimer, d))
    /\ handlers' = off(handlers, d)
    /\ pollCalled' = FALSE
    /\ lastCall' = "onUninit"
    /\ UNCHANGED <<awaiting, pollOn, notLife>>

\* MarstekVenusDriver.onUninit: socket.destroy(), that is disconnect() and
\* an empty registry; no timer is touched.
driverOnUninit ==
    /\ ~destroyed
    /\ destroyed' = TRUE
    /\ SetTransport(disconnect(Transport))
    /\ handlers' = <<>>
    /\ lastEv' = "destroy"
    /\ UNCHANGED <<txAt, txResult, handed, waitGen, cnResult, failedWith, rxVars, downVars,
                   timerVars, notSock>>

\* The pairing session asks for the list of devices while the driver runs.
listDevices ==
    /\ ~destroyed
    /\ broadcastDetect

\* The driver with one device paired (with an 'interval' of 30 s) and not
\* initialised yet.
InitDown ==
    /\ InitDriver /\ pollId = 0 /\ ~addrKnown
    /\ InitCloud
    /\ InitIdle
    /\ address = <<>>
    /\ pollCfg = <<>>
    /\ pollMs = 0
    /\ devices = <<30>>

NextDown ==
    \/ \E d \in DeviceIds, polls \in BOOLEAN : deviceOnInit(d, polls)
    \/ \E d \in DeviceIds : deviceOnInitResume(d)
    \/ \E d \in DeviceIds : deviceOnUninit(d)
    \/ driverOnUninit
    \/ listDevices
    \/ \E ok \in BOOLEAN : firstSendSettles(ok)
    \/ detectTick
    \/ resend
    \/ windowElapsed

SpecDown == InitDown /\ [][NextDown]_vars

\* The devices of the driver from their creation to their removal.
NextLife ==
    \/ \E d \in DeviceIds, polls \in BOOLEAN : deviceOnInit(d, polls)
    \/ \E d \in DeviceIds : deviceOnInitResume(d)
    \/ \E d \in DeviceIds : onSettings(d)
    \/ \E d \in DeviceIds : deviceOnUninit(d)
    \/ pollIntervalUpdate

\* The driver with its devices paired (all with an 'interval' of 30 s), none
\* of them initialised yet.
InitLife ==
    /\ InitDriver /\ pollId = 0 /\ ~addrKnown
    /\ InitCloud
    /\ InitIdle
    /\ address = <<>>
    /\ pollCfg = <<>>
    /\ pollMs = 0
    /\ devices = [k \in 1..MaxPollers |-> 30]

SpecLife == InitLife /\ [][NextLife]_vars

\* ------------------------------------------------- sendCommand handler
\* The datagrams the handler of a pending sendCommand is called with:
\* json.id, json.src (device A, another device B, or none), json.error
\* (none, or an object with the vendor's message) and json.result (none, a
\* falsy value such as null, or an object).
Datagrams ==
    [id : 1..MaxIds, src : {"A", "B", "none"}, error : {"none", "vendor message"},
     result : {"none", "falsy", "object"}]

\* if (json.id === unique)
handlerMatches(j, unique) == j.id = unique

\* if (json?.result) resolve(json.result ?? null) else reject(new
\* Error('Received json response is not as expected'))
handlerSettles(j) ==
    IF j.result = "object"
    THEN [state |-> "resolved", value |-> j.result]
    ELSE [state |-> "rejected", value |-> "Received json response is not as expected"]

\* sendCommand(A, ...) registers its handler with a new identifier.
request(id) ==
    /\ rqState # "pending"
    /\ rqId' = id
    /\ rqState' = "pending"
    /\ rqValue' = "none"
    /\ UNCHANGED <<json, notReply>>

\* The handler of the pending request is called with datagram j.
reply(j) ==
    /\ rqState = "pending"
    /\ json' = j
    /\ IF handlerMatches(j, rqId)
       THEN /\ rqState' = handlerSettles(j).state
            /\ rqValue' = handlerSettles(j).value
       ELSE UNCHANGED <<rqState, rqValue>>
    /\ UNCHANGED <<rqId, notReply>>

\* The timer of the pending request fires.
requestTimeout ==
    /\ rqState = "pending"
    /\ rqState' = "rejected"
    /\ rqValue' = "Timed out waiting for device response"
    /\ UNCHANGED <<rqId, json, notReply>>

InitReply ==
    /\ InitDriver /\ pollId = 0 /\ ~addrKnown
    /\ InitCloud
    /\ InitIdle
    /\ address = <<>>
    /\ pollCfg = <<>>
    /\ devices = <<>>
    /\ pollMs = 0

NextReply ==
    \/ \E id \in 1..MaxIds : request(id)
    \/ \E j \in Datagrams : reply(j)
    \/ requestTimeout

SpecReply == InitReply /\ [][NextReply]_vars

\* ------------------------------------------------- mode configurations
\* The weekday indices a flow hands to setModeManual, as strings.
DayStrings == {"0", "1", "2", "3", "4", "5", "6"}

\* parseInt(day)
parseInt(day) ==
    CASE day = "0" -> 0 [] day = "1" -> 1 [] day = "2" -> 2 [] day = "3" -> 3
      [] day = "4" -> 4 [] day = "5" -> 5 [] day = "6" -> 6

\* The index of bitArray that a day sets: bitArray[7 - parseInt(day)].
dayIndex_Earlier(day) == parseInt(day)
dayIndex(day) == 7 - parseInt(day)

\* [...'00000000'] after days.forEach(day => bitArray[dayIndex] = '1');
\* position i of the sequence is index i - 1 of the array.
bitArrayOf(days) ==
    [i \in 1..8 |-> IF \E day \in days : dayIndex(day) = i - 1 THEN "1" ELSE "0"]

\* parseInt(bitArray.join(''), 2): the first character is the most
\* significant bit.
RECURSIVE parseBinary(_, _)
parseBinary(bits, n) ==
    IF n = 0 THEN 0
    ELSE 2 * parseBinary(bits, n - 1) + (IF bits[n] = "1" THEN 1 ELSE 0)

\* const bitValue = parseInt(bitString, 2) over the eight characters.
bitValue_SevenRead(days) == parseBinary(bitArrayOf(days), 7)
bitValue(days) == parseBinary(bitArrayOf(days), 8)

\* week_set of the configuration that setModeManualDisable sends.
disableWeekSet == 127

\* setModeManual builds the configuration and hands it to
\* setModeConfiguration (start_time, end_time, power and enable are copied).
setModeManual(days) ==
    /\ manualDays' = days
    /\ weekSet' = bitValue(days)
    /\ passiveIn' = <<>>
    /\ passiveOut' = [state |-> "none"]
    /\ UNCHANGED notMode

\* The values a flow can hand over as power or seconds: numbers (NaN and
\* the infinities included) and strings.
Finite(n) == [k |-> "finite", n |-> n]
NaN == [k |-> "NaN", n |-> 0]
Infinity == [k |-> "Infinity", n |-> 0]
MinusInfinity == [k |-> "-Infinity", n |-> 0]
FlowNumbers == {Finite(n) : n \in -1..MaxPower} \cup {NaN, Infinity, MinusInfinity}
FlowStrings == {"", "1", "-1", "abc", "Infinity"}
FlowValues == [t : {"number"}, v : FlowNumbers] \cup [t : {"string"}, v : FlowStrings]

\* Number(x): a number is itself; the empty string is 0, a numeric string
\* its number, any other string NaN.
Number(x) ==
    IF x.t = "number" THEN x.v
    ELSE CASE x.v = "" -> Finite(0)
           [] x.v = "1" -> Finite(1)
           [] x.v = "-1" -> Finite(-1)
           [] x.v = "Infinity" -> Infinity
           [] OTHER -> NaN

isNaN(n) == n.k = "NaN"
belowZero(n) == n.k = "-Infinity" \/ (n.k = "finite" /\ n.n < 0)

\* setModePassive: convert, throw on NaN, throw below zero, otherwise hand
\* the configuration to setModeConfiguration.
passive(power, seconds) ==
    IF isNaN(Number(power)) \/ isNaN(Number(seconds))
    THEN [state |-> "throws", message |-> "Power and seconds must be numbers"]
    ELSE IF belowZero(Number(power)) \/ belowZero(Number(seconds))
    THEN [state |-> "throws", message |-> "Power and seconds must be zero or greater"]
    ELSE [state |-> "setModeConfiguration", mode |-> "Passive",
          power |-> Number(power), cd_time |-> Number(seconds)]

setModePassive(power, seconds) ==
    /\ passiveIn' = <<power, seconds>>
    /\ passiveOut' = passive(power, seconds)
    /\ manualDays' = {}
    /\ weekSet' = -1
    /\ UNCHANGED notMode

InitMode ==
    /\ InitDriver /\ pollId = 0 /\ ~addrKnown
    /\ InitCloud
    /\ InitIdle
    /\ address = <<>>
    /\ pollCfg = <<>>
    /\ devices = <<>>
    /\ pollMs = 0

NextMode ==
    \/ \E days \in SUBSET DayStrings : setModeManual(days)
    \/ \E power, seconds \in FlowValues : setModePassive(power, seconds)

SpecMode == InitMode /\ [][NextMode]_vars

\* ------------------------------------------------------ device address
\* A datagram comes from one of the paired batteries, from a battery that
\* is not paired ("C"), or carries no src at all.
Sources == Batteries \cup {"C", "none"}
Readings == {"none", "r1", "r2"}
RxDatagrams == [src : Sources, address : 1..MaxAddrs, result : Readings]

\* if (!this.getAvailable()) return: devices of this driver are created
\* available and none of its code calls setUnavailable.
getAvailable(d) == TRUE

\* if (json.src !== this.getSetting('src')) return
forThisInstance_Any(j, d) == TRUE
forThisInstance(j, d) == j.src = d

\* onMessage of device d takes the datagram up: it is available, the
\* datagram has a src and the src is its own.
takesUp(d, j) == getAvailable(d) /\ j.src # "none" /\ forThisInstance(j, d)

\* The transport hands datagram j to the onMessage handler of every device:
\* a device that takes it up stores remote.address and, when the datagram
\* has a result, sets its capabilities from it.
onMessage(j) ==
    /\ lastRx' = j
    /\ addrEv' = "message"
    /\ address' = [d \in Batteries |-> IF takesUp(d, j) THEN j.address ELSE address[d]]
    /\ readings' = [d \in Batteries |->
                       IF takesUp(d, j) /\ j.result # "none" THEN j.result ELSE readings[d]]
    /\ UNCHANGED <<lastUnicast, notAddr>>

\* poll() comes to device d with a message that goes by unicast: without a
\* stored address the device is skipped, otherwise socket.send(json, address).
unicastPoll(d) ==
    /\ addrEv' = "poll"
    /\ lastUnicast' = IF address[d] = 0
                      THEN [kind |-> "skipped", to |-> d, address |-> 0]
                      ELSE [kind |-> "poll", to |-> d, address |-> address[d]]
    /\ UNCHANGED <<address, readings, lastRx, notAddr>>

\* sendCommand(device d, ...): without a stored address it throws,
\* otherwise socket.send(payload, address).
commandTo(d) ==
    /\ addrEv' = "command"
    /\ lastUnicast' = IF address[d] = 0
                      THEN [kind |-> "throws", to |-> d, address |-> 0]
                      ELSE [kind |-> "command", to |-> d, address |-> address[d]]
    /\ UNCHANGED <<address, readings, lastRx, notAddr>>

\* Both batteries paired, with the address found at pairing or none.
InitAddr ==
    /\ InitDriver /\ pollId = 0 /\ ~addrKnown
    /\ InitCloud
    /\ pollCfg = <<>>
    /\ devices = <<>>
    /\ pollMs = 0
    /\ InitIdle
    /\ address \in [Batteries -> 0..MaxAddrs]

NextAddr ==
    \/ \E j \in RxDatagrams : onMessage(j)
    \/ \E d \in Batteries : unicastPoll(d)
    \/ \E d \in Batteries : commandTo(d)

SpecAddr == InitAddr /\ [][NextAddr]_vars

\* ------------------------------------------------- outbound identifiers
\* The identifiers of the three messages sendInitialRequests broadcasts.
initialIds == <<1, 2, 3>>

\* sendInitialRequests of a device being initialised: broadcast the next
\* message and wait 500 ms; after the last delay the function returns.
sendInitialRequests ==
    /\ ~MicrotaskPending
    /\ initialSent' = IF initialSent = Len(initialIds) THEN 0 ELSE initialSent + 1
    /\ UNCHANGED notInit

\* A battery answers the initial request broadcast last; the datagram goes
\* through the same dispatch as every other one.
initialReply(shape) ==
    /\ initialSent # 0
    /\ Datagram(initialIds[initialSent], shape)

\* Commands of flow cards, poll queries and a device being initialised, all
\* on the one socket of the driver.
InitIds == Init /\ addrKnown

NextIds ==
    \/ \E c \in Others : otherSendCommand(c)
    \/ \E c \in Others : otherResume(c)
    \/ \E r \in Reqs : \E shape \in ReplyShapes : Datagram(reqId[r], shape)
    \/ \E shape \in ReplyShapes : initialReply(shape)
    \/ \E r \in Reqs : Timeout(r)
    \/ \E r \in Reqs : SendFail(r)
    \/ PollGetId
    \/ sendInitialRequests

SpecIds == InitIds /\ [][NextIds]_vars

\* ------------------------------------------------------------ properties
Pending(r) == reqState[r] = "pending"

\* C1: no two requests that are pending at the same time carry the same
\* correlation identifier, also across a reseed of the identifier counter.
C1_UniqueWhilePending ==
    \A r1, r2 \in Reqs :
        (r1 # r2 /\ Pending(r1) /\ Pending(r2)) => reqId[r1] # reqId[r2]

\* C2: for every request the reply branch and the timeout timer together run
\* at most once, whatever the order of reply, timeout and send failure, and
\* an outcome once taken by the deferred is never replaced by another one.
C2_SettlesExactlyOnce ==
    /\ [](\A r \in Reqs :
            /\ reqFired[r] <= 1
            /\ (reqFired[r] = 1) <=>
                   (reqState[r] \in {"resolved_ack", "resolved_nack", "rej_shape", "rej_timeout"})
            /\ (reqState[r] = "rej_send") => (reqFired[r] = 0 /\ ~reqTimer[r] /\ ~InRegistry(r)))
    /\ [][\A r \in Reqs :
            (reqState[r] \in Settled /\ reqState'[r] \in Settled) => reqState'[r] = reqState[r]]_vars
C2_Witness ==
    \E r \in Reqs : reqState[r] = "resolved_ack" /\ reqFired[r] = 1 /\ reqSend[r] = "inflight"

\* C3: a request whose datagram is never answered is eventually rejected
\* with the timeout error, its handler deregistered and its timer gone; it
\* does not stay pending forever.
C3_TimesOut ==
    \A r \in Reqs :
        Pending(r) ~> (reqState[r] = "rej_timeout" /\ ~InRegistry(r) /\ ~reqTimer[r])
C3_Witness ==
    \E r \in Reqs : reqState[r] = "rej_timeout" /\ ~InRegistry(r)

\* C4: against a device that answers every attempt with an explicit
\* rejection, setModeConfiguration makes exactly one attempt and surfaces
\* the rejection.
C4_RejectionNotRetried ==
    (onlyNack /\ attempt >= 1) =>
        (attempt = 1 /\ sent = 1 /\ cmdState = "failed" /\ lastError = "rejected")

\* C5: setModeConfiguration never makes a sixth attempt; against a device
\* that never replies it makes exactly five, each ending in a timeout, and
\* then throws the timeout error of the last one.
C5_FiveAttemptsOnSilence ==
    /\ attempt <= ConfiguredTries
    /\ sent <= ConfiguredTries
    /\ (cmdState = "failed" /\ onlyTimeout) =>
           (attempt = ConfiguredTries /\ sent = ConfiguredTries /\ lastError = "timeout")
    /\ (onlyTimeout /\ attempt >= 1 /\ attempt < ConfiguredTries) => cmdState = "running"
    /\ (onlyTimeout /\ attempt >= 1) => cmdState # "ok"
C5_Witness ==
    cmdState = "failed" /\ onlyTimeout /\ attempt = ConfiguredTries /\ lastError = "timeout"

\* C6: per cloud session at most one status request is in flight and at most
\* one fetch is running; a fetchDeviceStatus call made while a fetch is in
\* flight is handed that fetch's promise, starts no request of its own, and
\* settles in the same step and with the same value or error as that fetch.
C6_SingleFlight ==
    /\ [](/\ Cardinality({c \in Callers : pc[c] \in {"F_status1", "F_status2"}}) <= 1
          /\ Cardinality({c \in Callers : pc[c] \in OwnFlight}) <= 1
          /\ \A c \in Callers :
                /\ pc[c] = "F_join" =>
                      /\ devicePromise # 0
                      /\ fJoin[c] = devicePromise
                      /\ pc[devicePromise] \in OwnFlight
                /\ (pc[c] = "F_join" \/ via[c] = "join") =>
                      (statusReqs[c] = 0 /\ loginStarts[c] = 0))
    /\ [][\A c \in Callers :
            (pc[c] = "F_join" /\ pc'[c] # "F_join") =>
                /\ pc'[c] = "done"
                /\ pc[fJoin[c]] \in OwnFlight
                /\ pc'[fJoin[c]] = "done"
                /\ result'[c] = result'[fJoin[c]]]_vars
C6_Witness ==
    \E c \in Callers :
        /\ pc[c] = "done" /\ via[c] = "join" /\ result[c] \in DataVals
        /\ pc[fJoin[c]] = "done" /\ result[fJoin[c]] = result[c]

\* C7: at most one login request is in flight per session; every call that
\* awaits a login - a direct login() call or a fetch that needs a token -
\* awaits the promise of that one request, only the call that created it
\* has started a request, and when the request is answered all of them
\* continue in that step, all on success or all with the error.
C7_SingleLogin ==
    /\ [](/\ Cardinality({o \in Callers : loginNet[o]}) <= 1
          /\ (loginPromise # 0) <=> (\E o \in Callers : loginNet[o])
          /\ loginPromise # 0 => loginNet[loginPromise]
          /\ \A c \in Callers :
                pc[c] \in LoginWait =>
                    /\ loginPromise # 0
                    /\ lJoin[c] = loginPromise
                    /\ lJoin[c] # c => ~loginNet[c])
    /\ [][\A o \in Callers :
            (loginNet[o] /\ ~loginNet'[o]) =>
                \A c1, c2 \in Callers :
                    (pc[c1] \in LoginWait /\ pc[c2] \in LoginWait) =>
                        /\ pc'[c1] \notin LoginWait
                        /\ (pc'[c1] = "done" /\ result'[c1] = "err")
                               <=> (pc'[c2] = "done" /\ result'[c2] = "err")]_vars
C7_Witness ==
    \E c1, c2 \in Callers :
        /\ c1 # c2
        /\ pc[c1] \in LoginWait /\ pc[c2] \in LoginWait
        /\ lJoin[c1] = c1 /\ lJoin[c2] = c1
        /\ loginNet[c1] /\ ~loginNet[c2] /\ loginStarts[c2] = 0

\* C8 (as stated): a call is answered from the cache exactly when a snapshot
\* younger than the freshness threshold exists, and the call that stored the
\* snapshot and a later call answered from it make exactly one HTTP request
\* in total.
C8_OneCallInTotal ==
    \A c \in Callers :
        /\ hadFresh[c] <=> via[c] = "cache"
        /\ via[c] = "cache" => fetchCost + statusReqs[c] + loginStarts[c] = 1

\* C8 (amended): a call is answered from the cache, with the stored snapshot
\* and without any HTTP request, exactly when a snapshot younger than the
\* freshness threshold exists; a snapshot whose age has reached the threshold
\* is never served.  Of the call that stored the snapshot and a later call
\* answered from it only the first makes requests: one status request, plus a
\* login when no token was held, plus a re-login and a second status request
\* after a code "8" response.
C8_CacheFreshness ==
    \A c \in Callers :
        /\ hadFresh[c] <=> via[c] = "cache"
        /\ via[c] = "cache" =>
              /\ lastDeviceStatus # "none"
              /\ now - timestamp < FreshnessMs
              /\ result[c] = lastDeviceStatus
              /\ statusReqs[c] = 0 /\ loginStarts[c] = 0 /\ relogins[c] = 0
              /\ fetchCost \in 1..4
        /\ (pc[c] \in OwnFlight \cup {"F_join"} \/ via[c] \in {"s1", "s2", "l1fail", "l2fail", "join"}) =>
              ~hadFresh[c]
C8_Witness ==
    \E c \in Callers :
        /\ pc[c] = "done" /\ via[c] = "cache"
        /\ now - timestamp = FreshnessMs - 1
        /\ fetchCost = 2

\* C9: a fetch re-logs in at most once and sends at most two status
\* requests.  The re-login happens only after a first response with code "8"
\* and is followed by exactly one further status request (none, and the login
\* error, when the re-login fails); a second response that is unusable,
\* code "8" again included, ends the fetch with an error.
C9_OneReloginOneRetry ==
    \A c \in Callers :
        /\ statusReqs[c] <= 2
        /\ relogins[c] <= 1
        /\ pc[c] = "F_login2" =>
              (relogins[c] = 1 /\ statusReqs[c] = 1 /\ lastKind[c] \in {"code8", "code8data"})
        /\ pc[c] = "F_status2" => (relogins[c] = 1 /\ statusReqs[c] = 2)
        /\ via[c] = "s2" =>
              /\ relogins[c] = 1 /\ statusReqs[c] = 2
              /\ lastKind[c] \in {"code8", "empty", "httperr"} => result[c] = "err"
        /\ via[c] = "l2fail" => (relogins[c] = 1 /\ statusReqs[c] = 1 /\ result[c] = "err")
        /\ via[c] \in {"s1", "l1fail"} =>
              (relogins[c] = 0 /\ statusReqs[c] <= 1 /\ lastKind[c] \notin {"code8", "code8data"})
C9_Witness ==
    \E c \in Callers :
        /\ pc[c] = "done" /\ via[c] = "s2" /\ lastKind[c] = "code8"
        /\ result[c] = "err" /\ relogins[c] = 1 /\ statusReqs[c] = 2

\* The interval in seconds that getPollInterval computed, without the
\* random part, and the intervals the devices declare.
Effective == pollMs \div 1000
Declared == {devices[k] : k \in {j \in 1..Len(devices) : devices[j] # 0}}
MinOf(S) == CHOOSE m \in S : \A x \in S : m <= x
DistinctlyDeclared ==
    \A j, k \in 1..Len(devices) : (j # k /\ devices[j] # 0) => devices[j] # devices[k]

RunningSeconds(ts, pt) == (CHOOSE t \in ts : t.h = pt).ms \div 1000
RECURSIVE trackedFrom(_, _, _)
trackedFrom(devs, polled, k) ==
    IF k > Len(devs) THEN <<>>
    ELSE (IF \E j \in 1..Len(polled) : polled[j] = k THEN <<devs[k]>> ELSE <<>>)
             \o trackedFrom(devs, polled, k + 1)
TrackedInterval(devs, polled) == forEach(trackedFrom(devs, polled, 1), 1, startSeconds)

\* C11: whenever a device starts or stops polling while the timer is
\* running, the timer runs from then on with the interval computed from the
\* devices that now poll; after the device with the smallest interval has
\* stopped, the period is the next smallest interval.
C11_RecomputedOnChange ==
    [][(pollTimeout # 0 /\ pollTimeout' # 0 /\ pollDevices' # pollDevices) =>
            RunningSeconds(timers', pollTimeout') = TrackedInterval(devices', pollDevices')]_vars

\* C12: after any sequence of pollStart, pollStop and pollIntervalUpdate
\* calls a poll timer is armed exactly when the list of polling devices is
\* not empty, and it is the one timer pollTimeout refers to; the pollStart
\* that makes the list non-empty, and no other call, starts the timer and
\* calls poll() at once, and the pollStop that empties it cancels the timer.
C12_TimerIffTracked ==
    /\ []((pollTimeout # 0) <=> (Len(pollDevices) > 0))
    /\ [](Armed = (IF pollTimeout = 0 THEN {} ELSE {pollTimeout}))
    /\ [](pollCalled => (lastCall = "pollStart" /\ Len(pollDevices) = 1 /\ pollTimeout # 0))
    /\ [][/\ (pollDevices = <<>> /\ pollDevices' # <<>>) =>
                (pollTimeout' # 0 /\ pollCalled' /\ timers' # {})
          /\ (pollDevices # <<>> /\ pollDevices' = <<>>) =>
                (pollTimeout' = 0 /\ timers' = {} /\ ~pollCalled')]_vars
C12_Witness ==
    /\ lastCall = "pollStop"
    /\ pollDevices = <<>>
    /\ pollTimeout = 0
    /\ timers = {}

\* C13: pollIntervalUpdate leaves the list of polling devices as it is; with
\* a timer running, the old timer is cancelled and exactly one timer is armed
\* afterwards, with the interval computed from the current settings; without
\* a timer none is started.
C13_UpdateRestartsTimer ==
    [][lastCall' = "pollIntervalUpdate" =>
          /\ pollDevices' = pollDevices
          /\ devices' = devices
          /\ pollTimeout = 0 => (pollTimeout' = 0 /\ timers' = {})
          /\ pollTimeout # 0 =>
                /\ pollTimeout' # 0
                /\ Cardinality(timers') = 1
                /\ Armed' = {pollTimeout'}
                /\ RunningSeconds(timers', pollTimeout') = forEach(devices, 1, startSeconds)]_vars
C13_Witness ==
    /\ lastCall = "pollIntervalUpdate"
    /\ Len(pollDevices) = 2
    /\ Cardinality(timers) = 1
    /\ RunningSeconds(timers, pollTimeout) = 30
    /\ \E k \in DeviceIds : devices[k] = 30
    /\ \A k \in DeviceIds : devices[k] >= 30

\* The entries of pollMessages the followed run has taken up are the first
\* ones of the list, each once and in list order.
TakenInOrder == \A i \in 1..Len(taken) : taken[i] = i

\* The number of socket calls the run made for message m to device k
\* (k = 0: broadcasts).
Transmits(m, k) == Cardinality({i \in 1..Len(txLog) : txLog[i] = <<m, k>>})

\* C14 as stated: a tick sends exactly one entry of the rotation.  Refuted:
\* a run of poll() takes up all five entries.
C14_OneEntryPerTick == runAt = "done" => Len(taken) = 1

\* C14 as the code has it: every run of poll() goes through the whole list
\* of poll messages in list order and takes up each entry exactly once, also
\* when a send of the run failed; a broadcast entry is broadcast exactly
\* once.  No cursor is carried from one tick to the next.
C14_WholeListPerTick ==
    /\ TakenInOrder
    /\ runAt \notin {"idle", "done"} => Len(taken) = runMsg
    /\ runAt = "done" =>
          /\ Len(taken) = Len(pollMessages)
          /\ \A m \in 1..Len(pollMessages) : pollMessages[m] => Transmits(m, 0) = 1

C14_Witness ==
    /\ runAt = "done"
    /\ firstFailed # <<>>
    /\ Len(taken) = Len(pollMessages)

\* C15: a failure of the work for one device (a failed send, a missing src
\* setting) does not keep the run from sending the same message to every
\* other device that is polled by unicast, and poll() never rejects, so no
\* error reaches the timer, whichever method armed it.
C15_FailureIsolated ==
    /\ runResult # "rejected"
    /\ runAt = "done" =>
          \A m \in 1..Len(pollMessages) : \A k \in 1..Len(pollCfg) :
              (~pollMessages[m] /\ pollCfg[k] = "unicast") => Transmits(m, k) = 1

C15_Witness ==
    /\ runAt = "done"
    /\ runBy = "update"
    /\ firstFailed = <<1, 1>>
    /\ Len(pollCfg) >= 2
    /\ pollCfg[2] = "unicast"
    /\ Transmits(1, 2) = 1

\* C16: the list of a discovery holds at most one entry per source tag, no
\* entry without a source tag, and exactly the tags of which a reply with
\* the device marker arrived, each with the address of the first such reply;
\* replies without source tag or without marker add nothing.
C16_OneEntryPerTag ==
    /\ \A i, j \in 1..Len(detDevices) : detDevices[i].id = detDevices[j].id => i = j
    /\ \A i \in 1..Len(detDevices) :
          /\ detDevices[i].id \in 1..MaxTags
          /\ detDevices[i].address = firstAddr[detDevices[i].id]
    /\ \A s \in 1..MaxTags :
          firstAddr[s] # 0 => \E i \in 1..Len(detDevices) : detDevices[i].id = s

C16_Witness ==
    /\ dupSeen
    /\ Len(detDevices) = 1
    /\ detDevices[1].address = firstAddr[detDevices[1].id]

Settled17 == {"resolved", "rejected"}

\* C17 as stated: a discovery that was started always ends resolved.
\* Refuted: when the first send is rejected, so is the discovery.
C17_AlwaysResolves == (detState = "sending") ~> (detState = "resolved")

\* C17 as the code has it: once its first send has settled a discovery
\* settles: rejected at once when that send failed, else resolved with its
\* list when the 9 s that start at that moment have passed, whether or not a
\* device replied; once settled its handler is deregistered and neither the
\* interval nor the timeout is armed.
C17_SettlesAfterWindow ==
    /\ (detState = "sending") ~> (detState \in Settled17)
    /\ [](detState = "resolved" =>
             /\ detFirst = "ok"
             /\ elapsed = WindowSeconds
             /\ detResult = detDevices)
    /\ [](detState = "rejected" => detFirst = "failed")
    /\ [](detState = "window" => detFirst = "ok" /\ elapsed <= WindowSeconds)
    /\ [](detState \in Settled17 =>
             /\ ~InRegistry(DetectHandler)
             /\ ~detInterval
             /\ ~detTimer)

C17_Witness ==
    /\ detState = "resolved"
    /\ detResult = <<>>
    /\ resent = 4
    /\ elapsed = WindowSeconds

\* The number of times handler h was called with the last datagram.
Calls(h) == Cardinality({i \in 1..Len(invoked) : invoked[i] = h})
Dispatched == rxOutcome \in {"dispatched", "caught"} /\ lastAddr = "other" /\ lastParsed

\* C18: a datagram from the host's own address is handed to no handler; a
\* datagram from another address that parses as JSON is handed to every
\* handler registered when it arrives.  Refuted in its second half: a
\* handler that stands behind one that removes itself is not called.
C18_SelfEchoSuppressed ==
    /\ lastAddr = "local" => invoked = <<>> /\ handlers = before
    /\ Dispatched => \A h \in HandlerIds : (\E i \in 1..Len(before) : before[i] = h) => Calls(h) >= 1

\* C19: every handler registered when a datagram arrives is called exactly
\* once with it, whatever the handlers do to the registry meanwhile.
\* Refuted: map runs over the array that off() shortens.
C19_IterationSafe ==
    Dispatched =>
        /\ Len(invoked) = Len(before)
        /\ \A i \in 1..Len(before) : Calls(before[i]) = 1

\* The handlers map reaches when no handler throws or rejects but each
\* still leaves or stays as it did.
Calm(beh) == [h \in HandlerIds |-> IF beh[h] \in {"throw", "reject"} THEN "keep" ELSE beh[h]]

\* C20: a handler that throws, or whose promise is rejected, changes nothing
\* for the other handlers: the same handlers are called, in the same order,
\* as if it had returned normally, and the error does not leave the message
\* callback.
C20_ThrowIsolated ==
    /\ rxOutcome # "escaped"
    /\ Dispatched =>
          /\ invoked = map(1, Len(before), before, <<>>, Calm(lastBeh)).invoked
          /\ (\A h \in HandlerIds : lastBeh[h] # "leave") => invoked = before

C20_Witness ==
    /\ Dispatched
    /\ Len(before) >= 3
    /\ lastBeh[before[1]] = "throw"
    /\ lastBeh[before[2]] = "reject"
    /\ invoked = before

\* C21: a send() or broadcast() that completes normally has handed its
\* datagram to a dgram socket.  Refuted: when the connect() inside transmit
\* is rejected, transmit logs it and returns.
C21_NeverQuietlyDone ==
    \A c \in Senders : (txAt[c] = "done" /\ txResult[c] = "resolved") => handed[c]

\* C22: connect() on a bound and connected transport resolves at once and
\* changes nothing: no socket is created or closed, connected and the
\* registry stay as they are.
C22_ConnectIdempotent ==
    [][(lastEv' = "connect" /\ sock = "bound" /\ connected) =>
          /\ cnResult' = "resolved"
          /\ UNCHANGED <<sock, connected, created, closing, handlers>>]_vars

C22_Witness ==
    /\ lastEv = "connect"
    /\ cnResult = "resolved"
    /\ sock = "bound"
    /\ connected
    /\ created = 1

\* C29: after an 'error' or 'close' event the transport is not connected;
\* it becomes connected only in the bind callback of a socket that a
\* connect(), send() or broadcast() call created; none of these steps
\* touches the registry, and a datagram on the new socket reaches the
\* handlers registered before the failure.
C29_NoSelfReconnect ==
    /\ [](lastEv \in {"error", "close"} => ~connected)
    /\ [][(~connected /\ connected') => (lastEv' = "bound" /\ sock = "binding")]_vars
    /\ [][(sock # "binding" /\ sock' = "binding") => lastEv' \in {"transmit", "connect"}]_vars
    /\ [][(sock' # sock \/ connected' # connected \/ created' # created \/ closing' # closing) =>
              handlers' = handlers]_vars
    /\ [](rxOutcome = "dispatched" => invoked = before)

C29_Witness ==
    /\ lastEv = "message"
    /\ rxOutcome = "dispatched"
    /\ created = 2
    /\ connected
    /\ Len(failedWith) = 2
    /\ invoked = failedWith

\* C23: once the driver and all its devices are torn down, no timer of the
\* core is armed.  Refuted: a discovery that is under way keeps its interval
\* and its timeout, and the interval goes on sending.
C23_NoTimerAfterTeardown ==
    (destroyed /\ running = {}) =>
        /\ pollTimeout = 0
        /\ timers = {}
        /\ ~detInterval
        /\ ~detTimer

\* The followed request has just been settled by the datagram in json.
SettledByReply == rqState \in {"resolved", "rejected"} /\ json.id = rqId /\ rqValue # "Timed out waiting for device response"

\* C24: a matching reply with an error field rejects the request with the
\* vendor's message, also when it has a result as well; one with a result
\* and no error resolves it with that result; any other rejects it as a
\* reply of unexpected shape.  Refuted: the handler never looks at
\* json.error.
C24_ErrorFieldRejects ==
    SettledByReply =>
        /\ json.error # "none" => (rqState = "rejected" /\ rqValue = json.error)
        /\ (json.error = "none" /\ json.result # "none") =>
               (rqState = "resolved" /\ rqValue = json.result)
        /\ (json.error = "none" /\ json.result = "none") =>
               (rqState = "rejected" /\ rqValue = "Received json response is not as expected")

\* C28: the request to device A is settled only by a datagram whose source
\* tag is A's.  Refuted: the handler compares the identifier only.
C28_SettledBySourceOnly ==
    SettledByReply => json.src = "A"

\* A power or duration the passive mode takes: a non-negative finite number.
ValidInput(x) == x.t = "number" /\ x.v.k = "finite" /\ x.v.n >= 0

\* C25: setModePassive with a power or a duration that is not a non-negative
\* finite number throws before setModeConfiguration is called, and hands
\* no converted value on.  Refuted: Infinity passes both tests, and strings
\* are converted with Number().
C25_InvalidRejected ==
    (passiveIn # <<>> /\ ~(ValidInput(passiveIn[1]) /\ ValidInput(passiveIn[2])))
        => passiveOut.state = "throws"

\* The days of a week_set under the convention of the documented example
\* (127: every day): bit d stands for day d.
daysOf(mask) == {d \in 0..6 : (mask \div (2 ^ d)) % 2 = 1}

\* C26: the week_set built by setModeManual decodes to exactly the selected
\* days, and no other selection of days gives the same week_set.
C26_WeekSetRoundTrip ==
    weekSet # -1 =>
        /\ daysOf(weekSet) = {parseInt(day) : day \in manualDays}
        /\ weekSet \in 0..127
        /\ \A other \in SUBSET DayStrings :
               parseBinary(bitArrayOf(other), 8) = weekSet => other = manualDays

\* Monday, Wednesday and Friday of a week that starts with day 0.
C26_Witness == manualDays = {"0", "2", "4"} /\ weekSet = 21

\* C27: in a run of poll(), a message that is not broadcast-only goes by
\* unicast to exactly the devices that are polled, do not prefer broadcast
\* and have an address (once each), and it is broadcast once when at least
\* one device prefers broadcast, and not at all otherwise.
C27_UnicastOrSharedBroadcast ==
    /\ \A m \in 1..Len(pollMessages) : \A k \in 1..Len(pollCfg) :
           ~pollMessages[m] => Transmits(m, k) <= (IF pollCfg[k] = "unicast" THEN 1 ELSE 0)
    /\ \A m \in 1..Len(pollMessages) :
           ~pollMessages[m] =>
               Transmits(m, 0) <= (IF \E k \in 1..Len(pollCfg) : pollCfg[k] = "broadcast"
                                   THEN 1 ELSE 0)
    /\ runAt = "done" =>
          \A m \in 1..Len(pollMessages) :
              ~pollMessages[m] =>
                  /\ \A k \in 1..Len(pollCfg) :
                         Transmits(m, k) = 1 <=> pollCfg[k] = "unicast"
                  /\ Transmits(m, 0) = 1 <=> \E k \in 1..Len(pollCfg) : pollCfg[k] = "broadcast"

C27_Witness ==
    /\ runAt = "done"
    /\ pollCfg = <<"noaddress", "broadcast">>
    /\ Transmits(1, 1) = 0
    /\ Transmits(1, 0) = 1

Tracked == {pollDevices[k] : k \in 1..Len(pollDevices)}

\* C31: a device that was deleted or uninitialised has no handler in the
\* registry of the socket and no entry in pollDevices, and the poll timer
\* is cancelled when no device is left.  Refuted: onInit goes on after its
\* awaits and starts polling for a device that was torn down meanwhile.
C31_GoneIsForgotten ==
    /\ \A d \in gone : ~InRegistry(d) /\ d \notin Tracked
    /\ (running = {} /\ gone # {}) => (pollTimeout = 0 /\ timers = {})

\* The sum of 2^d over the days d of a selection.
RECURSIVE sumOfBits(_)
sumOfBits(ds) ==
    IF ds = {} THEN 0
    ELSE LET d == CHOOSE x \in ds : TRUE IN 2 ^ d + sumOfBits(ds \ {d})

\* C32: week_set is the sum of 2^d over the selected days d and has no
\* other bit: every day selected gives 127, the value setModeManualDisable
\* sends, and no day selected gives 0.
C32_BitPerDay ==
    weekSet # -1 =>
        /\ weekSet = sumOfBits({parseInt(day) : day \in manualDays})
        /\ manualDays = DayStrings => weekSet = disableWeekSet
        /\ manualDays = {} => weekSet = 0

C32_Witness == manualDays = DayStrings /\ weekSet = 127

C39_RejectedLoginNoToken ==
    [][\A c \in Callers :
          (pc[c] \in LoginWait /\ pc'[c] = "done" /\ result'[c] = "err"
              /\ via'[c] \in {"login", "l1fail", "l2fail"})
          => token' = "none"]_vars

\* C40: a fetch that ends with an error leaves lastDeviceStatus and
\* timestamp as they were; the two fields change only together, in the step
\* in which a fetch ends with data, to that data and to the time of that
\* step; and a timestamp is held exactly when a snapshot is.
C40_SnapshotWithItsTime ==
    /\ [](/\ lastDeviceStatus = "none" <=> fetchCost = 0
          /\ lastDeviceStatus = "none" => timestamp = 0
          /\ timestamp <= now)
    /\ [][\A c \in Callers :
            (pc[c] \in OwnFlight /\ pc'[c] = "done" /\
                (result'[c] = "err" \/ lastKind'[c] \in {"empty", "httperr", "code8"}))
            => (result'[c] = "err" /\ UNCHANGED <<lastDeviceStatus, timestamp>>)]_vars
    /\ [][(lastDeviceStatus' # lastDeviceStatus \/ timestamp' # timestamp) =>
            \E c \in Callers :
                /\ pc[c] \in {"F_status1", "F_status2"}
                /\ pc'[c] = "done"
                /\ result'[c] \in DataVals
                /\ lastDeviceStatus' = result'[c]
                /\ timestamp' = now']_vars

\* A fetch has failed while a snapshot of an earlier fetch is held: the
\* snapshot is older than the freshness threshold and still there.
C40_Witness ==
    \E c \in Callers :
        /\ pc[c] = "done" /\ via[c] = "s1" /\ result[c] = "err"
        /\ lastDeviceStatus \in DataVals
        /\ now - timestamp >= FreshnessMs

\* C34: no other outbound query carries the identifier of a command that is
\* pending at that time: neither the initial request a device has broadcast
\* last and may still be answered, nor a poll query taking its identifier from
\* the counter while the command is pending.  (The discovery query of
\* broadcastDetect carries the string "Homey-Detect", which is no number.)
C34_NoSharedIdentifier ==
    /\ [](\A r \in Reqs :
            (reqState[r] = "pending" /\ initialSent # 0)
                => reqId[r] # initialIds[initialSent])
    /\ [][(pollId' # pollId /\ UNCHANGED reqTimer)
            => \A r \in Reqs : reqState[r] = "pending" => reqId[r] # pollId']_vars

\* C35: when connect() is entered again while the socket of an earlier
\* connect() is still binding, every connect() promise that is waiting waits
\* for the bind of the socket the transport holds (so it settles with that
\* bind), and connected is true only while the held socket is bound.
C35_ReentrantConnectSettles ==
    /\ \A c \in Senders : txAt[c] = "connecting" => waitGen[c] = created
    /\ connected => sock = "bound"

C37_TicksNeverOverlap ==
    [][(taken' = <<1>> /\ pollId' # pollId) => runAt \in {"idle", "done"}]_vars

\* Two lists hold the same devices: each interval setting as often in the
\* one as in the other.
SameDevices(a, b) ==
    /\ Len(a) = Len(b)
    /\ \A s \in IntervalSettings :
          Cardinality({k \in 1..Len(a) : a[k] = s}) = Cardinality({k \in 1..Len(b) : b[k] = s})

\* C38: the interval getPollInterval computed (its part before the random
\* milliseconds) is the one it computes for every other order of the same
\* devices.
C38_OrderIndependent ==
    pollMs # 0 =>
        \A l \in DeviceLists(MaxDevices) :
            SameDevices(l, devices) => getPollInterval(l, 0) \div 1000 = pollMs \div 1000

====
